---------------------------- MODULE Spec2Model ----------------------------
(***************************************************************************)
(* Jellyfin Database Tweaker: the update pipeline of ProcessThread (count, *)
(* four generators, four appliers) together with the part of MainDialog    *)
(* that starts a run, cancels it and reports its end.                      *)
(*                                                                         *)
(* Strings are sequences of one-character strings.  A filesystem path is a *)
(* sequence of components (each a string); the catalog is the             *)
(* TypedBaseItems table, a function from row numbers to rows.              *)
(***************************************************************************)
EXTENDS Integers, Sequences, FiniteSets, TLC

(***************************************************************************)
(* Bounds of the exploration.                                              *)
(***************************************************************************)
MaxRuns == 2
\* a name handed to artistAndAlbumMetadata is built from at most MaxParts pieces
MaxParts == 5
\* a track's directory holds at most MaxSiblings files
MaxSiblings == 3
\* the name of a playlist's directory is built from at most MaxNameParts pieces
MaxNameParts == 3
\* a decoded image is at most MaxImageSide pixels wide and high
MaxImageSide == 7
\* an image file was last modified at most MaxMillis ms after the Unix epoch
MaxMillis == 20

(***************************************************************************)
(* String helpers (QString / std::string).                                 *)
(***************************************************************************)
SEPARATOR == <<" ", "-", " ">>
DASH == <<"-">>
BACKSLASH == "\\"

IsPrefixAt(s, sub, i) ==
    /\ i + Len(sub) - 1 <= Len(s)
    /\ SubSeq(s, i, i + Len(sub) - 1) = sub

\* std::string::find(sub) != npos
Contains(s, sub) == \E i \in 1..(Len(s) + 1) : IsPrefixAt(s, sub, i)

RECURSIVE SplitFrom(_, _, _, _)
SplitFrom(s, sep, i, cur) ==
    IF i > Len(s) THEN <<cur>>
    ELSE IF IsPrefixAt(s, sep, i)
         THEN <<cur>> \o SplitFrom(s, sep, i + Len(sep), <<>>)
         ELSE SplitFrom(s, sep, i + 1, Append(cur, s[i]))

\* QString::split(sep), empty parts kept
Split(s, sep) == SplitFrom(s, sep, 1, <<>>)

RECURSIVE Join(_, _)
Join(parts, sep) ==
    IF Len(parts) = 0 THEN <<>>
    ELSE IF Len(parts) = 1 THEN parts[1]
    ELSE parts[1] \o sep \o Join(Tail(parts), sep)

Digits == <<"0", "1", "2", "3", "4", "5", "6", "7", "8", "9">>
IsDigit(c) == \E d \in 1..10 : Digits[d] = c
DigitVal(c) == (CHOOSE d \in 1..10 : Digits[d] = c) - 1

RECURSIVE DecimalValue(_, _)
DecimalValue(s, acc) ==
    IF Len(s) = 0 THEN acc ELSE DecimalValue(Tail(s), acc * 10 + DigitVal(Head(s)))

RECURSIVE TrimLeft(_)
TrimLeft(s) == IF Len(s) > 0 /\ Head(s) = " " THEN TrimLeft(Tail(s)) ELSE s
RECURSIVE TrimRight(_)
TrimRight(s) ==
    IF Len(s) > 0 /\ s[Len(s)] = " " THEN TrimRight(SubSeq(s, 1, Len(s) - 1)) ELSE s

\* QString::toInt(): surrounding white space is ignored, an optional sign,
\* then decimal digits; 0 when the text is not a number.
toInt(s) ==
    LET t == TrimRight(TrimLeft(s))
        neg == Len(t) > 0 /\ Head(t) = "-"
        signed == Len(t) > 0 /\ Head(t) \in {"-", "+"}
        body == IF signed THEN Tail(t) ELSE t
    IN  IF Len(body) = 0 \/ \E i \in 1..Len(body) : ~IsDigit(body[i]) THEN 0
        ELSE IF neg THEN 0 - DecimalValue(body, 0) ELSE DecimalValue(body, 0)

(***************************************************************************)
(* std::filesystem::path helpers.                                          *)
(***************************************************************************)
filename(p) == IF Len(p) = 0 THEN <<>> ELSE p[Len(p)]
parent_path(p) == IF Len(p) = 0 THEN <<>> ELSE SubSeq(p, 1, Len(p) - 1)

\* position of the last '.' of a file name that starts an extension, 0 if none
DotPos(f) ==
    LET dots == {i \in 2..Len(f) : f[i] = "."}
    IN  IF dots = {} \/ f = <<".", ".">> THEN 0
        ELSE CHOOSE i \in dots : \A j \in dots : j <= i

extension(p) ==
    LET f == filename(p) IN IF DotPos(f) = 0 THEN <<>> ELSE SubSeq(f, DotPos(f), Len(f))
stem(p) ==
    LET f == filename(p) IN IF DotPos(f) = 0 THEN f ELSE SubSeq(f, 1, DotPos(f) - 1)

RECURSIVE PathString(_)
\* path::string() with the Windows separator
PathString(p) ==
    IF Len(p) = 0 THEN <<>>
    ELSE IF Len(p) = 1 THEN p[1]
    ELSE PathString(parent_path(p)) \o <<BACKSLASH>> \o p[Len(p)]

\* lexicographic order on strings by character rank, as std::set<path> orders
CharRank(c) ==
    LET order == <<" ", "-", ".", "0", "1", "2", "3", "4", "5", "6", "7", "8", "9",
                   "A", "B", "F", "X", "Y", "Z", "\\", "_",
                   "a", "b", "c", "g", "j", "l", "m", "p", "q", "u">>
    IN  IF \E i \in 1..Len(order) : order[i] = c
        THEN CHOOSE i \in 1..Len(order) : order[i] = c
        ELSE Len(order) + 1

RECURSIVE StrLess(_, _)
StrLess(a, b) ==
    IF Len(b) = 0 THEN FALSE
    ELSE IF Len(a) = 0 THEN TRUE
    ELSE IF Head(a) = Head(b) THEN StrLess(Tail(a), Tail(b))
    ELSE CharRank(Head(a)) < CharRank(Head(b))

PathLess(p, q) == StrLess(PathString(p), PathString(q))

RECURSIVE SortPaths(_)
\* the elements of a set of paths in increasing order (iteration of std::set)
SortPaths(S) ==
    IF S = {} THEN <<>>
    ELSE LET m == CHOOSE x \in S : \A y \in S \ {x} : PathLess(x, y)
         IN  <<m>> \o SortPaths(S \ {m})

(***************************************************************************)
(* Program constants.                                                      *)
(***************************************************************************)
PLAYLIST_VALUE == "MediaBrowser.Controller.Playlists.Playlist"
ALBUM_VALUE == "MediaBrowser.Controller.Entities.Audio.MusicAlbum"
TRACK_VALUE == "MediaBrowser.Controller.Entities.Audio.Audio"

\* SQL NULL of a text column: a one-element string no text can equal
NULL == <<"<NULL>">>
NullInt == [isNull |-> TRUE, val |-> 0]
IntValue(n) == [isNull |-> FALSE, val |-> n]

\* the empty-playlist payload (EMPTY_PLAYLIST_BLOB / EMPTY_PLAYLIST_TEXT)
EMPTY_PLAYLIST == [LinkedChildren |-> <<>>, DateLastSaved |-> "0001-01-01T00:00:00.0000000Z"]
\* the data column of a row that holds something else
OTHER_DATA == [LinkedChildren |-> <<>>, DateLastSaved |-> "other"]

MP3 == <<".", "m", "p", "3">>
M3U == <<".", "m", "3", "u">>
JPG == <<".", "j", "p", "g">>

\* the error texts m_error can hold
NoError == ""
AbortedText == "Aborted operation."
PrepareErrorText == "Unable to make SQL statement."
SQLiteErrorText == "SQLite3 ERROR."
ExceptionText == "Exception"

AUDIO == <<"A", "u", "d", "i", "o">>
Unknown == <<"U", "n", "k", "n", "o", "w", "n">>
EmptyString == <<>>

(***************************************************************************)
(* The explored inputs: a music folder "X - Y" holding a playlist, two     *)
(* tracks and a cover image, and a folder "Z" holding only a playlist.     *)
(***************************************************************************)
DirA == <<"X", " ", "-", " ", "Y">>
DirB == <<"Z">>
AlbumA == <<DirA>>
FolderB == <<DirB>>
PlaylistA == <<DirA, <<"p">> \o M3U>>
Track1 == <<DirA, <<"0", "1">> \o SEPARATOR \o <<"a">> \o MP3>>
Track2 == <<DirA, <<"2", "-", "0", "1">> \o SEPARATOR \o <<"b">> \o MP3>>
ImageA == <<DirA, <<"F">> \o JPG>>
PlaylistB == <<DirB, <<"q">> \o M3U>>
\* an .mp3 file of folder "Z" that the catalog has no row for
TrackC == <<DirB, <<"c">> \o MP3>>

\* the text of the image-name field of the dialog (m_imageName)
ImageName == <<"F">>

FullDisk == {AlbumA, PlaylistA, Track1, Track2, ImageA, FolderB, PlaylistB}
Disks == {FullDisk, FullDisk \ {Track2}, {FolderB, PlaylistB}, FullDisk \cup {TrackC}}

OldText == <<"o", "l", "d">>

Row(type, path, media, data, guid) ==
    [type |-> type, Path |-> path, MediaType |-> media,
     Images |-> NULL, Album |-> NULL, Artists |-> NULL, AlbumArtists |-> NULL,
     IndexNumber |-> NullInt, data |-> data, guid |-> guid]

\* the catalogs explored: rows 1..5; the playlist of folder A is an audio
\* playlist or one without media type, and the first track has its album and
\* artist already filled in or not
Catalog(playlistMedia, trackFilled) ==
    <<Row(PLAYLIST_VALUE, PlaylistA, playlistMedia, EMPTY_PLAYLIST, "id1"),
      [Row(TRACK_VALUE, Track1, AUDIO, OTHER_DATA, "id2") EXCEPT
          !.Album = IF trackFilled THEN OldText ELSE NULL,
          !.Artists = IF trackFilled THEN OldText ELSE NULL,
          !.AlbumArtists = IF trackFilled THEN OldText ELSE NULL],
      Row(TRACK_VALUE, Track2, AUDIO, OTHER_DATA, "id3"),
      Row(ALBUM_VALUE, AlbumA, NULL, OTHER_DATA, "id4"),
      Row(PLAYLIST_VALUE, PlaylistB, AUDIO, EMPTY_PLAYLIST, "id5")>>

Catalogs == {Catalog(m, f) : m \in {AUDIO, NULL}, f \in BOOLEAN}

\* ProcessConfiguration
Configs ==
    [processPlaylistImages : BOOLEAN, processPlaylistTracklist : BOOLEAN,
     processTracksArtists : BOOLEAN, processTracksNumbers : BOOLEAN,
     processAlbums : BOOLEAN, imageName : {ImageName}]

AllOptions ==
    [processPlaylistImages |-> TRUE, processPlaylistTracklist |-> TRUE,
     processTracksArtists |-> TRUE, processTracksNumbers |-> TRUE,
     processAlbums |-> TRUE, imageName |-> ImageName]

\* no heuristic is being examined
NoCall ==
    [fn |-> "none", text |-> EmptyString, path |-> <<>>, done |-> FALSE,
     pair |-> <<EmptyString, EmptyString>>, number |-> NullInt,
     size |-> <<0, 0>>, grid |-> <<0, 0>>, millis |-> 0, ticks |-> EmptyString]

(***************************************************************************)
(* State.                                                                  *)
(***************************************************************************)
VARIABLES
    catalog,          \* the TypedBaseItems table
    fs,               \* the paths that exist on disk
    pc,               \* "idle": m_thread is null; otherwise the worker's position
    config,           \* m_config
    m_abort,          \* the flag as stored
    abortVisible,     \* the flag as the worker thread reads it (plain bool, two threads)
    m_error,
    m_dbModified,
    operationCount,   \* the three globals of the translation unit
    totalOperations,
    currentProgress,
    playlistOperations,
    playlistTracksOperations,
    trackOperations,
    albumOperations,
    cursor,           \* generators: the rows the SELECT still has to deliver
    idx,              \* appliers: index of the operation the loop is at
    stmtOk,           \* appliers: the UPDATE statement was prepared
    cancelledAt,      \* "none", or the phase the worker was in when the user pressed Cancel
    terminated,       \* the dialog called QThread::terminate()
    progressLog,      \* values emitted through progress(int) in this run
    finishedMsg,      \* the "Finished!" message was emitted in this run
    writes,           \* the applier of every UPDATE executed in this run
    phases,           \* generator and applier phases entered in this run
    skipped,          \* a row or operation was skipped in this run
    prepareFailed,    \* the generator whose statement preparation failed, or "none"
    history,          \* one record per run reported finished
    threads,          \* the ProcessThread objects that exist
    call,             \* a call of a naming heuristic examined on its own
    faults,           \* the database may refuse a count query or a step (busy, locked)
    abortedAfter,     \* the UPDATEs executed when abort() was called, -1 before
    stmtCalls,        \* appliers: the calls made on the phase's UPDATE statement
    openStatements    \* statements prepared and not finalized in this run

dbVars == <<catalog, fs>>
flagVars == <<m_abort, abortVisible, cancelledAt, terminated>>
globalVars == <<operationCount, totalOperations, currentProgress>>
opVars == <<playlistOperations, playlistTracksOperations, trackOperations, albumOperations>>
loopVars == <<cursor, idx, stmtOk>>
logVars == <<progressLog, finishedMsg, writes, phases, skipped, prepareFailed>>
sideVars == <<threads, call, faults, abortedAfter, stmtCalls, openStatements>>
vars == <<dbVars, pc, config, flagVars, m_error, m_dbModified, globalVars, opVars,
          loopVars, logVars, history, sideVars>>

Rows == DOMAIN catalog

Init ==
    /\ catalog \in Catalogs
    /\ fs \in Disks
    /\ pc = "idle"
    /\ config = AllOptions
    /\ m_abort = FALSE
    /\ abortVisible = FALSE
    /\ m_error = NoError
    /\ m_dbModified = FALSE
    /\ operationCount = 0
    /\ totalOperations = 0
    /\ currentProgress = 0
    /\ playlistOperations = <<>>
    /\ playlistTracksOperations = <<>>
    /\ trackOperations = <<>>
    /\ albumOperations = <<>>
    /\ cursor = <<>>
    /\ idx = 0
    /\ stmtOk = FALSE
    /\ cancelledAt = "none"
    /\ terminated = FALSE
    /\ progressLog = <<>>
    /\ finishedMsg = FALSE
    /\ writes = <<>>
    /\ phases = <<>>
    /\ skipped = FALSE
    /\ prepareFailed = "none"
    /\ history = <<>>
    /\ threads = 0
    /\ call = NoCall
    /\ faults = FALSE
    /\ abortedAfter = -1
    /\ stmtCalls = <<>>
    /\ openStatements = 0

(***************************************************************************)
(* Catalog queries.                                                        *)
(***************************************************************************)
RECURSIVE SeqOfSet(_)
\* row numbers in increasing order (the order a table scan delivers them)
SeqOfSet(S) ==
    IF S = {} THEN <<>>
    ELSE LET m == CHOOSE x \in S : \A y \in S : x <= y
         IN  <<m>> \o SeqOfSet(S \ {m})

\* type='Playlist' AND (Images IS NULL OR Album IS NULL OR Artists IS NULL)
PlaylistImagePredicate(r) ==
    /\ r.type = PLAYLIST_VALUE
    /\ (r.Images = NULL \/ r.Album = NULL \/ r.Artists = NULL)

\* type='Playlist' AND data=X'<empty playlist>'
PlaylistTracksPredicate(r) ==
    /\ r.type = PLAYLIST_VALUE
    /\ r.data = EMPTY_PLAYLIST

\* type='Audio' AND IndexNumber IS NULL
TrackNumberPredicate(r) ==
    /\ r.type = TRACK_VALUE
    /\ r.IndexNumber.isNull

\* type='MusicAlbum' AND (Images IS NULL OR Album IS NULL OR Artists IS NULL)
AlbumPredicate(r) ==
    /\ r.type = ALBUM_VALUE
    /\ (r.Images = NULL \/ r.Album = NULL \/ r.Artists = NULL)

SelectPlaylistImages == SeqOfSet({i \in Rows : PlaylistImagePredicate(catalog[i])})
SelectPlaylistTracks == SeqOfSet({i \in Rows : PlaylistTracksPredicate(catalog[i])})
SelectTrackNumbers == SeqOfSet({i \in Rows : TrackNumberPredicate(catalog[i])})
SelectAlbums == SeqOfSet({i \in Rows : AlbumPredicate(catalog[i])})

\* SELECT COUNT(*) FROM TypedBaseItems WHERE ...: the count, or 0 when
\* sqlite3_exec fails
countSQLiteOperation(selected, ok) == IF ok THEN Len(selected) ELSE 0

\* the four count queries of countOperations
CountQueries == {"images", "tracklist", "numbers", "albums"}

\* totalOperations after countOperations, when the queries in failing fail
CountedOperations(cfg, total, failing) ==
    total
    + (IF cfg.processPlaylistImages
       THEN 2 * countSQLiteOperation(SelectPlaylistImages, "images" \notin failing) ELSE 0)
    + (IF cfg.processPlaylistTracklist
       THEN 2 * countSQLiteOperation(SelectPlaylistTracks, "tracklist" \notin failing) ELSE 0)
    + (IF cfg.processTracksNumbers
       THEN 2 * countSQLiteOperation(SelectTrackNumbers, "numbers" \notin failing) ELSE 0)
    + (IF cfg.processAlbums
       THEN countSQLiteOperation(SelectAlbums, "albums" \notin failing) ELSE 0)

(***************************************************************************)
(* Progress.                                                               *)
(***************************************************************************)
ProgressValue(operationNumber) == (operationNumber * 100) \div totalOperations

\* checkProgress(operationNumber): emits only when the value changes
checkProgress(operationNumber) ==
    LET progressValue == ProgressValue(operationNumber)
    IN  /\ currentProgress' = progressValue
        /\ progressLog' = IF currentProgress # progressValue
                          THEN Append(progressLog, progressValue)
                          ELSE progressLog

(***************************************************************************)
(* Naming heuristics and cover descriptor.                                 *)
(***************************************************************************)
EmptyPair == <<EmptyString, EmptyString>>

\* variant: the album is the second segment only
artistAndAlbumMetadataSecondSegment(text) ==
    LET parts == Split(text, SEPARATOR)
    IN  IF Len(parts) > 1 THEN <<parts[1], parts[2]>> ELSE EmptyPair

artistAndAlbumMetadata(text) ==
    LET parts == Split(text, SEPARATOR)
    IN  IF Len(parts) > 1 THEN <<parts[1], Join(Tail(parts), SEPARATOR)>> ELSE EmptyPair

exists(p) == p \in fs

\* directory_iterator{dir}: the entries of an existing directory
DirectoryEntries(dir) == {e \in fs : Len(e) > 0 /\ parent_path(e) = dir}

\* std::filesystem::canonical of a path that exists (the explored disks hold
\* no links and no relative parts)
canonical(p) == p

\* the descriptor text of a decoded image: path*ticks*Primary*w*h*hash
Descriptor(imagePath) ==
    PathString(canonical(imagePath)) \o <<"*", "ticks", "*", "Primary", "*", "w", "*", "h", "*", "hash">>

BLURHASH_MAXSIZE == 5

\* the component counts (x, y) handed to blurhash::encode for a decoded image
\* of width x height pixels ("/" on positive ints)
EncodeGrid(width, height) ==
    IF width = height THEN <<BLURHASH_MAXSIZE, BLURHASH_MAXSIZE>>
    ELSE IF width > height
         THEN <<BLURHASH_MAXSIZE, BLURHASH_MAXSIZE \div (width \div height)>>
         ELSE <<BLURHASH_MAXSIZE \div (height \div width), BLURHASH_MAXSIZE>>

RECURSIVE ToDecimal(_)
\* std::to_string of a number that is not negative
ToDecimal(n) ==
    IF n < 10 THEN <<Digits[n + 1]>> ELSE ToDecimal(n \div 10) \o <<Digits[(n % 10) + 1]>>

Reverse(s) == [i \in 1..Len(s) |-> s[Len(s) + 1 - i]]

RECURSIVE AddReversed(_, _, _)
\* the sum of two decimal texts given lowest digit first
AddReversed(a, b, carry) ==
    IF Len(a) = 0 /\ Len(b) = 0
    THEN IF carry = 0 THEN <<>> ELSE <<Digits[carry + 1]>>
    ELSE LET x == IF Len(a) = 0 THEN 0 ELSE DigitVal(Head(a))
             y == IF Len(b) = 0 THEN 0 ELSE DigitVal(Head(b))
             sum == x + y + carry
         IN  <<Digits[(sum % 10) + 1]>>
                 \o AddReversed(IF Len(a) = 0 THEN a ELSE Tail(a),
                                IF Len(b) = 0 THEN b ELSE Tail(b), sum \div 10)

\* the decimal text of the sum of two 64-bit values given as decimal texts
\* (values that do not fit 31 bits are kept as text)
AddDecimal(a, b) == Reverse(AddReversed(Reverse(a), Reverse(b), 0))

\* the literal 621355968000009999
TICKS_OFFSET ==
    <<"6", "2", "1", "3", "5", "5", "9", "6", "8",
      "0", "0", "0", "0", "0", "9", "9", "9", "9">>

\* std::to_string(writeTime) for lastModified().toMSecsSinceEpoch() = millis:
\* (millis * 10000) + the literal
writeTime(millis) ==
    AddDecimal(ToDecimal(millis) \o <<"0", "0", "0", "0">>, TICKS_OFFSET)

\* albumBlurhash(path) of an existing directory: the entry found first (in the
\* unspecified order of the iteration) whose path text contains the image
\* name, decoded or not
albumBlurhash(path) ==
    LET candidates == {e \in DirectoryEntries(path) : Contains(PathString(e), config.imageName)}
    IN  IF candidates = {} THEN {EmptyString}
        ELSE {EmptyString} \cup {Descriptor(e) : e \in candidates}

\* artist and album of a playlist row
PlaylistMetadata(playlistPath) ==
    LET first == artistAndAlbumMetadata(stem(parent_path(playlistPath)))
        metadata == IF first = EmptyPair
                    THEN artistAndAlbumMetadata(stem(playlistPath)) ELSE first
    IN  IF metadata[1] = EmptyString \/ metadata[2] = EmptyString
        THEN <<Unknown, stem(playlistPath)>>
        ELSE metadata

\* artist and album of an album row no playlist operation covers
AlbumMetadata(albumPath) ==
    LET metadata == artistAndAlbumMetadata(stem(albumPath))
    IN  IF metadata # EmptyPair THEN metadata ELSE <<Unknown, stem(albumPath)>>

RECURSIVE CountUpTo(_, _, _)
\* the loop over the sorted directory entries: count the .mp3 entries before
\* the track, starting at 1
CountUpTo(names, trackPath, fileCount) ==
    IF Len(names) = 0 THEN fileCount
    ELSE IF extension(Head(names)) # MP3 THEN CountUpTo(Tail(names), trackPath, fileCount)
    ELSE IF Head(names) = trackPath THEN fileCount
    ELSE CountUpTo(Tail(names), trackPath, fileCount + 1)

\* variant: the number after the dash is taken whatever the disc prefix is
TrackNumberIgnoringDisc(trackPath) ==
    LET parts == Split(stem(trackPath), SEPARATOR)
        numberPart == parts[1]
        diskParts == Split(numberPart, DASH)
    IN  IF Len(diskParts) > 1 THEN toInt(diskParts[2]) ELSE toInt(numberPart)

\* the track number of a track path whose stem has at least two parts
TrackNumber(trackPath) ==
    LET parts == Split(stem(trackPath), SEPARATOR)
        numberPart == parts[1]
        diskParts == Split(numberPart, DASH)
    IN  IF Len(diskParts) > 1
        THEN IF diskParts[1] = <<"1">>
             THEN toInt(diskParts[2])
             ELSE CountUpTo(SortPaths(DirectoryEntries(parent_path(trackPath))), trackPath, 1)
        ELSE toInt(numberPart)

(***************************************************************************)
(* MainDialog::onUpdateButtonPressed, "Update DB" branch: a new            *)
(* ProcessThread is created and started.  The dialog refuses to start when *)
(* neither artists/albums nor images is checked.                           *)
(***************************************************************************)
\* a new ProcessThread: members as the constructor sets them, nothing
\* generated or logged yet; the globals keep their values
NewThread(cfg) ==
    /\ config' = cfg
    /\ pc' = "start"
    /\ m_abort' = FALSE
    /\ abortVisible' = FALSE
    /\ cancelledAt' = "none"
    /\ terminated' = FALSE
    /\ m_error' = NoError
    /\ m_dbModified' = FALSE
    /\ playlistOperations' = <<>>
    /\ playlistTracksOperations' = <<>>
    /\ trackOperations' = <<>>
    /\ albumOperations' = <<>>
    /\ cursor' = <<>>
    /\ idx' = 0
    /\ stmtOk' = FALSE
    /\ progressLog' = <<>>
    /\ finishedMsg' = FALSE
    /\ writes' = <<>>
    /\ phases' = <<>>
    /\ skipped' = FALSE
    /\ prepareFailed' = "none"
    /\ threads' = threads + 1
    /\ abortedAfter' = -1
    /\ stmtCalls' = <<>>
    /\ openStatements' = 0
    /\ UNCHANGED <<dbVars, globalVars, history, call, faults>>

\* variant: the "Update DB" branch without "if(m_thread) return;"
StartRunWithoutThreadCheck ==
    /\ history = <<>>
    /\ \E cfg \in Configs :
          /\ cfg.processTracksArtists \/ cfg.processPlaylistImages
          /\ NewThread(cfg)

\* the first run of the process
StartRun ==
    /\ pc = "idle"
    /\ history = <<>>
    /\ \E cfg \in Configs :
          /\ cfg.processTracksArtists \/ cfg.processPlaylistImages
          /\ NewThread(cfg)

\* a later run of the process, with the check boxes left as they were
StartAgain ==
    /\ pc = "idle"
    /\ history # <<>>
    /\ Len(history) < MaxRuns
    /\ NewThread(history[Len(history)].config)

(***************************************************************************)
(* ProcessThread::run, up to the first generator: emit the current         *)
(* progress, count the operations, return when there are none.             *)
(***************************************************************************)
\* variant: run() without "if(totalOperations == 0) return"
RunBeginWithoutEmptyCheck ==
    /\ pc = "start"
    /\ progressLog' = Append(progressLog, currentProgress)
    /\ \E failing \in (IF faults THEN SUBSET CountQueries ELSE {{}}) :
          totalOperations' = CountedOperations(config, totalOperations, failing)
    /\ pc' = "gpi_prep"
    /\ UNCHANGED <<dbVars, config, flagVars, m_error, m_dbModified, operationCount,
                   currentProgress, opVars, loopVars, finishedMsg, writes, phases,
                   skipped, prepareFailed, history, sideVars>>

RunBegin ==
    /\ pc = "start"
    /\ progressLog' = Append(progressLog, currentProgress)
    /\ \E failing \in (IF faults THEN SUBSET CountQueries ELSE {{}}) :
          totalOperations' = CountedOperations(config, totalOperations, failing)
    /\ pc' = IF totalOperations' = 0 THEN "finished" ELSE "gpi_prep"
    /\ UNCHANGED <<dbVars, config, flagVars, m_error, m_dbModified, operationCount,
                   currentProgress, opVars, loopVars, finishedMsg, writes, phases,
                   skipped, prepareFailed, history, sideVars>>

\* variant: run() also returns after a phase that recorded an error
AfterPhaseStoppingOnError(next) ==
    IF abortVisible
    THEN /\ m_error' = AbortedText
         /\ pc' = "finished"
    ELSE /\ pc' = IF m_error # NoError THEN "finished" ELSE next
         /\ UNCHANGED m_error

\* run(): "if(m_abort) { m_error = "Aborted operation."; return; }" after a phase
AfterPhase(next) ==
    IF abortVisible
    THEN /\ m_error' = AbortedText
         /\ pc' = "finished"
    ELSE /\ pc' = next
         /\ UNCHANGED m_error

\* variant: run() has no handler, the exception leaves the thread function
ThrowEscapes ==
    /\ pc' = "crashed"
    /\ UNCHANGED m_error

\* an exception leaves the pipeline and is caught by run()
Throw ==
    /\ m_error' = ExceptionText
    /\ pc' = "finished"

(***************************************************************************)
(* generatePlaylistImageOperations                                         *)
(***************************************************************************)
GenPlaylistImagesPrepare ==
    /\ pc = "gpi_prep"
    /\ phases' = Append(phases, "gpi")
    /\ IF ~config.processPlaylistImages
       THEN /\ pc' = "gpi_ret"
            /\ UNCHANGED <<m_error, flagVars, cursor, prepareFailed, abortedAfter,
                           openStatements>>
       ELSE \E ok \in BOOLEAN :
              IF ok
              THEN /\ cursor' = SelectPlaylistImages
                   /\ pc' = "gpi_loop"
                   /\ openStatements' = openStatements + 1
                   /\ UNCHANGED <<m_error, flagVars, prepareFailed, abortedAfter>>
              ELSE /\ m_error' = PrepareErrorText
                   /\ m_abort' = TRUE
                   /\ abortVisible' = TRUE
                   /\ prepareFailed' = "gpi"
                   /\ pc' = "gpi_ret"
                   /\ abortedAfter' = IF m_abort THEN abortedAfter ELSE Len(writes)
                   /\ UNCHANGED <<cursor, cancelledAt, terminated, openStatements>>
    /\ UNCHANGED <<dbVars, config, m_dbModified, globalVars, opVars, idx, stmtOk,
                   progressLog, finishedMsg, writes, skipped, history, threads, call,
                   faults, stmtCalls>>

GenPlaylistImagesRow ==
    /\ pc = "gpi_loop"
    \* the statement is finalized when the rows are exhausted and on the abort return
    /\ openStatements' = IF cursor = <<>> \/ abortVisible
                         THEN openStatements - 1 ELSE openStatements
    /\ IF cursor = <<>>
       THEN /\ pc' = "gpi_ret"
            /\ UNCHANGED <<m_error, cursor, playlistOperations, operationCount,
                           currentProgress, progressLog, skipped>>
       ELSE IF abortVisible
       THEN /\ m_error' = AbortedText
            /\ pc' = "gpi_ret"
            /\ UNCHANGED <<cursor, playlistOperations, operationCount,
                           currentProgress, progressLog, skipped>>
       ELSE LET playlistPath == catalog[Head(cursor)].Path IN
            /\ cursor' = Tail(cursor)
            /\ pc' = "gpi_loop"
            /\ UNCHANGED m_error
            /\ IF ~exists(playlistPath)
               THEN /\ skipped' = TRUE
                    /\ UNCHANGED <<playlistOperations, operationCount,
                                   currentProgress, progressLog>>
               ELSE \E entryData \in albumBlurhash(parent_path(playlistPath)) :
                      /\ playlistOperations' = Append(playlistOperations,
                             [path |-> playlistPath, imageData |-> entryData,
                              artist |-> PlaylistMetadata(playlistPath)[1],
                              album |-> PlaylistMetadata(playlistPath)[2]])
                      /\ operationCount' = operationCount + 1
                      /\ checkProgress(operationCount + 1)
                      /\ UNCHANGED skipped
    /\ UNCHANGED <<dbVars, config, flagVars, m_dbModified, totalOperations,
                   playlistTracksOperations, trackOperations, albumOperations,
                   idx, stmtOk, finishedMsg, writes, phases, prepareFailed, history, threads, call, faults,
                   abortedAfter, stmtCalls>>

GenPlaylistImagesReturn ==
    /\ pc = "gpi_ret"
    /\ AfterPhase("gpt_prep")
    /\ UNCHANGED <<dbVars, config, flagVars, m_dbModified, globalVars, opVars,
                   loopVars, logVars, history, sideVars>>

(***************************************************************************)
(* generatePlaylistTracksOperations                                        *)
(***************************************************************************)
GenPlaylistTracksPrepare ==
    /\ pc = "gpt_prep"
    /\ phases' = Append(phases, "gpt")
    /\ IF ~config.processPlaylistTracklist
       THEN /\ pc' = "gpt_ret"
            /\ UNCHANGED <<m_error, flagVars, cursor, prepareFailed, abortedAfter,
                           openStatements>>
       ELSE \E ok \in BOOLEAN :
              IF ok
              THEN /\ cursor' = SelectPlaylistTracks
                   /\ pc' = "gpt_loop"
                   /\ openStatements' = openStatements + 1
                   /\ UNCHANGED <<m_error, flagVars, prepareFailed, abortedAfter>>
              ELSE /\ m_error' = PrepareErrorText
                   /\ m_abort' = TRUE
                   /\ abortVisible' = TRUE
                   /\ prepareFailed' = "gpt"
                   /\ pc' = "gpt_ret"
                   /\ abortedAfter' = IF m_abort THEN abortedAfter ELSE Len(writes)
                   /\ UNCHANGED <<cursor, cancelledAt, terminated, openStatements>>
    /\ UNCHANGED <<dbVars, config, m_dbModified, globalVars, opVars, idx, stmtOk,
                   progressLog, finishedMsg, writes, skipped, history, threads, call,
                   faults, stmtCalls>>

\* first pass: one operation per playlist row, holding the .mp3 entries of
\* the playlist's directory in sorted order
GenPlaylistTracksRow ==
    /\ pc = "gpt_loop"
    \* the SELECT is finalized on the abort return; when the rows are exhausted
    \* it is finalized and the statement of the second pass is prepared
    /\ openStatements' = IF cursor # <<>> /\ abortVisible
                         THEN openStatements - 1 ELSE openStatements
    /\ IF cursor = <<>>
       THEN /\ pc' = "gpt_ids"
            /\ idx' = 1
            /\ UNCHANGED <<m_error, cursor, playlistTracksOperations, skipped>>
       ELSE IF abortVisible
       THEN /\ m_error' = AbortedText
            /\ pc' = "gpt_ret"
            /\ UNCHANGED <<cursor, idx, playlistTracksOperations, skipped>>
       ELSE LET playlistPath == catalog[Head(cursor)].Path
                filenames == {e \in DirectoryEntries(parent_path(playlistPath)) :
                                 extension(e) = MP3}
            IN
            /\ cursor' = Tail(cursor)
            /\ pc' = "gpt_loop"
            /\ UNCHANGED <<m_error, idx>>
            /\ IF ~exists(parent_path(playlistPath))
               THEN /\ skipped' = TRUE
                    /\ UNCHANGED playlistTracksOperations
               ELSE /\ playlistTracksOperations' = Append(playlistTracksOperations,
                           [path |-> playlistPath, tracks |-> SortPaths(filenames),
                            track_ids |-> <<>>])
                    /\ UNCHANGED skipped
    /\ UNCHANGED <<dbVars, config, flagVars, m_dbModified, globalVars,
                   playlistOperations, trackOperations, albumOperations,
                   stmtOk, progressLog, finishedMsg, writes, phases, prepareFailed,
                   history, threads, call, faults,
                   abortedAfter, stmtCalls>>

\* the Track rows whose path is the given one (type='Audio' AND path=:path)
TrackRowsAt(track) ==
    {i \in Rows : catalog[i].type = TRACK_VALUE /\ catalog[i].Path = track}

\* variant: the inner loop stops after the first track
TrackIdsOfFirstTrack(tracks) ==
    [k \in 1..(IF Len(tracks) > 0 THEN 1 ELSE 0) |->
        catalog[CHOOSE i \in TrackRowsAt(tracks[k]) :
                    \A j \in TrackRowsAt(tracks[k]) : i <= j].guid]

\* the id column of the first row of each track
TrackIds(tracks) ==
    [k \in 1..Len(tracks) |->
        catalog[CHOOSE i \in TrackRowsAt(tracks[k]) :
                    \A j \in TrackRowsAt(tracks[k]) : i <= j].guid]

\* second pass: the ids of the tracks of one operation.  A track without a
\* row makes sqlite3_column_text return a null pointer from which a
\* std::string is built: the construction throws (libstdc++) or the process
\* dies.
\* variant: the null pointer is taken as the empty id and the loop goes on
GenPlaylistTracksIdsKeepingEmptyId ==
    /\ pc = "gpt_ids"
    \* the statement is finalized after the last operation and on the abort return
    /\ openStatements' = IF idx > Len(playlistTracksOperations) \/ abortVisible
                         THEN openStatements - 1 ELSE openStatements
    /\ IF idx > Len(playlistTracksOperations)
       THEN /\ pc' = "gpt_ret"
            /\ UNCHANGED <<m_error, idx, playlistTracksOperations, operationCount,
                           currentProgress, progressLog>>
       ELSE IF abortVisible
       THEN /\ m_error' = AbortedText
            /\ pc' = "gpt_ret"
            /\ UNCHANGED <<idx, playlistTracksOperations, operationCount,
                           currentProgress, progressLog>>
       ELSE LET op == playlistTracksOperations[idx] IN
            /\ playlistTracksOperations' =
                   [playlistTracksOperations EXCEPT ![idx].track_ids =
                       [k \in 1..Len(op.tracks) |->
                           IF TrackRowsAt(op.tracks[k]) = {} THEN ""
                           ELSE TrackIds(<<op.tracks[k]>>)[1]]]
            /\ idx' = idx + 1
            /\ operationCount' = operationCount + 1
            /\ checkProgress(operationCount + 1)
            /\ pc' = "gpt_ids"
            /\ m_error' = IF \E k \in 1..Len(op.tracks) : TrackRowsAt(op.tracks[k]) = {}
                          THEN SQLiteErrorText ELSE m_error
    /\ UNCHANGED <<dbVars, config, flagVars, m_dbModified, totalOperations,
                   playlistOperations, trackOperations, albumOperations,
                   cursor, stmtOk, finishedMsg, writes, phases, skipped,
                   prepareFailed, history, threads, call, faults,
                   abortedAfter, stmtCalls>>

\* second pass of generatePlaylistTracksOperations (see above)
GenPlaylistTracksIds ==
    /\ pc = "gpt_ids"
    \* the statement is finalized after the last operation and on the abort return
    /\ openStatements' = IF idx > Len(playlistTracksOperations) \/ abortVisible
                         THEN openStatements - 1 ELSE openStatements
    /\ IF idx > Len(playlistTracksOperations)
       THEN /\ pc' = "gpt_ret"
            /\ UNCHANGED <<m_error, idx, playlistTracksOperations, operationCount,
                           currentProgress, progressLog>>
       ELSE IF abortVisible
       THEN /\ m_error' = AbortedText
            /\ pc' = "gpt_ret"
            /\ UNCHANGED <<idx, playlistTracksOperations, operationCount,
                           currentProgress, progressLog>>
       ELSE LET op == playlistTracksOperations[idx] IN
            IF \E k \in 1..Len(op.tracks) : TrackRowsAt(op.tracks[k]) = {}
            THEN /\ \/ Throw
                    \/ /\ pc' = "crashed"
                       /\ m_error' = SQLiteErrorText
                 /\ UNCHANGED <<idx, playlistTracksOperations, operationCount,
                                currentProgress, progressLog>>
            ELSE /\ playlistTracksOperations' =
                        [playlistTracksOperations EXCEPT ![idx].track_ids = TrackIds(op.tracks)]
                 /\ idx' = idx + 1
                 /\ operationCount' = operationCount + 1
                 /\ checkProgress(operationCount + 1)
                 /\ pc' = "gpt_ids"
                 /\ UNCHANGED m_error
    /\ UNCHANGED <<dbVars, config, flagVars, m_dbModified, totalOperations,
                   playlistOperations, trackOperations, albumOperations,
                   cursor, stmtOk, finishedMsg, writes, phases, skipped,
                   prepareFailed, history, threads, call, faults,
                   abortedAfter, stmtCalls>>

GenPlaylistTracksReturn ==
    /\ pc = "gpt_ret"
    /\ AfterPhase("gtn_prep")
    /\ UNCHANGED <<dbVars, config, flagVars, m_dbModified, globalVars, opVars,
                   loopVars, logVars, history, sideVars>>

(***************************************************************************)
(* generateTracksNumberOperationData: a failed preparation records the     *)
(* error and returns the empty list; the flag is left alone.               *)
(***************************************************************************)
GenTrackNumbersPrepare ==
    /\ pc = "gtn_prep"
    /\ phases' = Append(phases, "gtn")
    /\ IF ~config.processTracksNumbers
       THEN /\ pc' = "gtn_ret"
            /\ UNCHANGED <<m_error, cursor, prepareFailed, openStatements>>
       ELSE \E ok \in BOOLEAN :
              IF ok
              THEN /\ cursor' = SelectTrackNumbers
                   /\ pc' = "gtn_loop"
                   /\ openStatements' = openStatements + 1
                   /\ UNCHANGED <<m_error, prepareFailed>>
              ELSE /\ m_error' = PrepareErrorText
                   /\ prepareFailed' = "gtn"
                   /\ pc' = "gtn_ret"
                   /\ UNCHANGED <<cursor, openStatements>>
    /\ UNCHANGED <<dbVars, config, flagVars, m_dbModified, globalVars, opVars, idx,
                   stmtOk, progressLog, finishedMsg, writes, skipped, history, threads, call,
                   faults, abortedAfter, stmtCalls>>

GenTrackNumbersRow ==
    /\ pc = "gtn_loop"
    \* the statement is finalized when the rows are exhausted and on the abort return
    /\ openStatements' = IF cursor = <<>> \/ abortVisible
                         THEN openStatements - 1 ELSE openStatements
    /\ IF cursor = <<>>
       THEN /\ pc' = "gtn_ret"
            /\ UNCHANGED <<m_error, cursor, trackOperations, operationCount,
                           currentProgress, progressLog, skipped>>
       ELSE IF abortVisible
       THEN /\ m_error' = AbortedText
            /\ pc' = "gtn_ret"
            /\ UNCHANGED <<cursor, trackOperations, operationCount,
                           currentProgress, progressLog, skipped>>
       ELSE LET trackPath == catalog[Head(cursor)].Path IN
            /\ cursor' = Tail(cursor)
            /\ pc' = "gtn_loop"
            /\ UNCHANGED m_error
            /\ IF ~exists(trackPath) \/ Len(Split(stem(trackPath), SEPARATOR)) < 2
               THEN /\ skipped' = TRUE
                    /\ UNCHANGED <<trackOperations, operationCount,
                                   currentProgress, progressLog>>
               ELSE /\ trackOperations' = Append(trackOperations,
                           [path |-> trackPath, trackNum |-> TrackNumber(trackPath)])
                    /\ operationCount' = operationCount + 1
                    /\ checkProgress(operationCount + 1)
                    /\ UNCHANGED skipped
    /\ UNCHANGED <<dbVars, config, flagVars, m_dbModified, totalOperations,
                   playlistOperations, playlistTracksOperations, albumOperations,
                   idx, stmtOk, finishedMsg, writes, phases, prepareFailed, history, threads, call, faults,
                   abortedAfter, stmtCalls>>

\* variant: run() applies the playlist images before the albums are generated
GenTrackNumbersReturnToAppliers ==
    /\ pc = "gtn_ret"
    /\ AfterPhase("upi_prep")
    /\ UNCHANGED <<dbVars, config, flagVars, m_dbModified, globalVars, opVars,
                   loopVars, logVars, history, sideVars>>

GenTrackNumbersReturn ==
    /\ pc = "gtn_ret"
    /\ AfterPhase("gao_prep")
    /\ UNCHANGED <<dbVars, config, flagVars, m_dbModified, globalVars, opVars,
                   loopVars, logVars, history, sideVars>>

(***************************************************************************)
(* generateAlbumsOperationsData(playlistOperations)                        *)
(***************************************************************************)
GenAlbumsPrepare ==
    /\ pc = "gao_prep"
    /\ phases' = Append(phases, "gao")
    /\ IF ~config.processAlbums
       THEN /\ pc' = "gao_ret"
            /\ UNCHANGED <<m_error, cursor, prepareFailed, openStatements>>
       ELSE \E ok \in BOOLEAN :
              IF ok
              THEN /\ cursor' = SelectAlbums
                   /\ pc' = "gao_loop"
                   /\ openStatements' = openStatements + 1
                   /\ UNCHANGED <<m_error, prepareFailed>>
              ELSE /\ m_error' = PrepareErrorText
                   /\ prepareFailed' = "gao"
                   /\ pc' = "gao_ret"
                   /\ UNCHANGED <<cursor, openStatements>>
    /\ UNCHANGED <<dbVars, config, flagVars, m_dbModified, globalVars, opVars, idx,
                   stmtOk, progressLog, finishedMsg, writes, skipped, history, threads, call,
                   faults, abortedAfter, stmtCalls>>

\* variant: the playlist path itself is compared with the album path
SameAsPlaylistPath(albumPath) ==
    {k \in 1..Len(playlistOperations) :
        playlistOperations[k].path = albumPath}

\* the playlist operations whose parent directory is the album path
SameAs(albumPath) ==
    {k \in 1..Len(playlistOperations) :
        parent_path(playlistOperations[k].path) = albumPath}

\* the row's path is not checked: iterating a directory that does not exist
\* throws
GenAlbumsRow ==
    /\ pc = "gao_loop"
    \* the statement is finalized when the rows are exhausted and on the abort return
    /\ openStatements' = IF cursor = <<>> \/ abortVisible
                         THEN openStatements - 1 ELSE openStatements
    /\ IF cursor = <<>>
       THEN /\ pc' = "gao_ret"
            /\ UNCHANGED <<m_error, cursor, albumOperations, operationCount,
                           currentProgress, progressLog>>
       ELSE IF abortVisible
       THEN /\ m_error' = AbortedText
            /\ pc' = "gao_ret"
            /\ UNCHANGED <<cursor, albumOperations, operationCount,
                           currentProgress, progressLog>>
       ELSE LET albumPath == catalog[Head(cursor)].Path IN
            IF SameAs(albumPath) # {}
            THEN LET it == playlistOperations[CHOOSE k \in SameAs(albumPath) :
                                                 \A j \in SameAs(albumPath) : k <= j]
                 IN  /\ albumOperations' = Append(albumOperations,
                            [path |-> albumPath, imageData |-> it.imageData,
                             artist |-> it.artist, album |-> it.album])
                     /\ cursor' = Tail(cursor)
                     /\ operationCount' = operationCount + 1
                     /\ checkProgress(operationCount + 1)
                     /\ pc' = "gao_loop"
                     /\ UNCHANGED m_error
            ELSE IF ~exists(albumPath)
            THEN /\ Throw
                 /\ UNCHANGED <<cursor, albumOperations, operationCount,
                                currentProgress, progressLog>>
            ELSE \E entryData \in albumBlurhash(albumPath) :
                     /\ albumOperations' = Append(albumOperations,
                            [path |-> albumPath, imageData |-> entryData,
                             artist |-> AlbumMetadata(albumPath)[1],
                             album |-> AlbumMetadata(albumPath)[2]])
                     /\ cursor' = Tail(cursor)
                     /\ operationCount' = operationCount + 1
                     /\ checkProgress(operationCount + 1)
                     /\ pc' = "gao_loop"
                     /\ UNCHANGED m_error
    /\ UNCHANGED <<dbVars, config, flagVars, m_dbModified, totalOperations,
                   playlistOperations, playlistTracksOperations, trackOperations,
                   idx, stmtOk, finishedMsg, writes, phases, skipped, prepareFailed,
                   history, threads, call, faults,
                   abortedAfter, stmtCalls>>

\* run() after the last generator: the appliers start, m_dbModified is set
GenAlbumsReturn ==
    /\ pc = "gao_ret"
    /\ AfterPhase("upi_prep")
    /\ m_dbModified' = IF abortVisible THEN m_dbModified ELSE TRUE
    /\ UNCHANGED <<dbVars, config, flagVars, globalVars, opVars,
                   loopVars, logVars, history, sideVars>>

(***************************************************************************)
(* The UPDATE statements of the appliers.                                  *)
(***************************************************************************)
ARTISTS_PART(cfg) ==
    IF cfg.processTracksArtists
    THEN <<"Artists = :artist", ",", "AlbumArtists=:artist", ",", "Album = :album", ",">>
    ELSE <<>>

IMAGES_PART(cfg) == IF cfg.processPlaylistImages THEN <<"Images = :image">> ELSE <<>>

\* the tokens between SET and WHERE
SetClause(cfg) == ARTISTS_PART(cfg) \o IMAGES_PART(cfg)

\* sqlite3_prepare_v3 accepts a SET list of assignments separated by commas
PrepareSucceeds(tokens) ==
    /\ Len(tokens) > 0
    /\ Len(tokens) % 2 = 1
    /\ \A i \in 1..Len(tokens) : (tokens[i] = ",") <=> (i % 2 = 0)

UpperCase == <<"A", "B", "C", "D", "E", "F", "G", "H", "I", "J", "K", "L", "M",
               "N", "O", "P", "Q", "R", "S", "T", "U", "V", "W", "X", "Y", "Z">>
LowerCase == <<"a", "b", "c", "d", "e", "f", "g", "h", "i", "j", "k", "l", "m",
               "n", "o", "p", "q", "r", "s", "t", "u", "v", "w", "x", "y", "z">>
Lower(c) ==
    IF \E i \in 1..Len(UpperCase) : UpperCase[i] = c
    THEN LowerCase[CHOOSE i \in 1..Len(UpperCase) : UpperCase[i] = c]
    ELSE c

RECURSIVE Like(_, _)
\* SQLite's LIKE: % matches any text, _ any one character, letters match
\* without regard to case
Like(pattern, text) ==
    IF Len(pattern) = 0 THEN Len(text) = 0
    ELSE IF Head(pattern) = "%"
         THEN \E k \in 0..Len(text) : Like(Tail(pattern), SubSeq(text, k + 1, Len(text)))
    ELSE IF Len(text) = 0 THEN FALSE
    ELSE /\ Head(pattern) = "_" \/ Lower(Head(pattern)) = Lower(Head(text))
         /\ Like(Tail(pattern), Tail(text))

\* the columns the SET list of the image/album statements assigns
SetMetadata(r, op, cfg) ==
    [r EXCEPT !.Artists = IF cfg.processTracksArtists THEN op.artist ELSE @,
              !.AlbumArtists = IF cfg.processTracksArtists THEN op.artist ELSE @,
              !.Album = IF cfg.processTracksArtists THEN op.album ELSE @,
              !.Images = IF cfg.processPlaylistImages THEN op.imageData ELSE @]

\* UPDATE ... WHERE Path LIKE :path AND MediaType = 'Audio'
PlaylistImageTargets(cat, op) ==
    {i \in DOMAIN cat :
        /\ Like(PathString(parent_path(op.path)) \o <<BACKSLASH, "%">>, PathString(cat[i].Path))
        /\ cat[i].MediaType = AUDIO}

\* variant: the statement also assigns the bound path to the Path column
ApplyPlaylistImageWritingPath(cat, op, cfg) ==
    [i \in DOMAIN cat |->
        IF i \in PlaylistImageTargets(cat, op)
        THEN [SetMetadata(cat[i], op, cfg) EXCEPT !.Path = parent_path(op.path)]
        ELSE cat[i]]

ApplyPlaylistImage(cat, op, cfg) ==
    [i \in DOMAIN cat |->
        IF i \in PlaylistImageTargets(cat, op) THEN SetMetadata(cat[i], op, cfg) ELSE cat[i]]

\* UPDATE ... WHERE Path = :path AND MediaType IS NULL AND type = 'MusicAlbum'
AlbumTargets(cat, op) ==
    {i \in DOMAIN cat :
        /\ PathString(cat[i].Path) = PathString(canonical(op.path))
        /\ cat[i].MediaType = NULL
        /\ cat[i].type = ALBUM_VALUE}

ApplyAlbum(cat, op, cfg) ==
    [i \in DOMAIN cat |->
        IF i \in AlbumTargets(cat, op) THEN SetMetadata(cat[i], op, cfg) ELSE cat[i]]

\* UPDATE ... SET IndexNumber=:index WHERE Path = :path AND type='Audio'
ApplyTrackNumber(cat, op) ==
    [i \in DOMAIN cat |->
        IF cat[i].Path = op.path /\ cat[i].type = TRACK_VALUE
        THEN [cat[i] EXCEPT !.IndexNumber = IntValue(op.trackNum)]
        ELSE cat[i]]

\* variant: the ids are handed out from the end of the list
TracklistPayloadIdsReversed(op) ==
    [LinkedChildren |->
        [k \in 1..Len(op.tracks) |->
            [Path |-> filename(op.tracks[k]), Type |-> "Manual",
             ItemId |-> op.track_ids[Len(op.tracks) + 1 - k]]],
     DateLastSaved |-> "now"]

\* the payload built from the empty-playlist template
TracklistPayload(op) ==
    [LinkedChildren |->
        [k \in 1..Len(op.tracks) |->
            [Path |-> filename(op.tracks[k]), Type |-> "Manual", ItemId |-> op.track_ids[k]]],
     DateLastSaved |-> "now"]

\* UPDATE ... SET data=:data WHERE path=:path AND type='Playlist'
ApplyPlaylistTracks(cat, op) ==
    [i \in DOMAIN cat |->
        IF cat[i].Path = op.path /\ cat[i].type = PLAYLIST_VALUE
        THEN [cat[i] EXCEPT !.data = TracklistPayload(op)]
        ELSE cat[i]]

\* variant: the statement is stepped before its parameters are bound
StatementUseStepFirst == <<"step", "bind", "clear", "reset">>

\* the calls made on the statement for one operation
StatementUse == <<"bind", "step", "clear", "reset">>

\* the results a bind or step of an UPDATE can have
StepResults == IF faults THEN BOOLEAN ELSE {TRUE}

(***************************************************************************)
(* updatePlaylistImages                                                    *)
(***************************************************************************)
UpdatePlaylistImagesPrepare ==
    /\ pc = "upi_prep"
    /\ phases' = Append(phases, "upi")
    /\ stmtOk' = PrepareSucceeds(SetClause(config))
    /\ idx' = 1
    /\ stmtCalls' = <<"prepare">>
    /\ openStatements' = openStatements + (IF stmtOk' THEN 1 ELSE 0)
    /\ pc' = "upi_check"
    /\ UNCHANGED <<dbVars, config, flagVars, m_error, m_dbModified, globalVars, opVars,
                   cursor, progressLog, finishedMsg, writes, skipped, prepareFailed,
                   history, threads, call, faults, abortedAfter>>

\* head of the loop: "if(m_abort) { m_error = ...; return; }"
UpdatePlaylistImagesCheck ==
    /\ pc = "upi_check"
    \* sqlite3_finalize after the loop only: the abort return leaves without it
    /\ LET finalized == idx > Len(playlistOperations)
       IN  /\ stmtCalls' = IF finalized THEN Append(stmtCalls, "finalize") ELSE stmtCalls
           /\ openStatements' = IF finalized /\ stmtOk
                                THEN openStatements - 1 ELSE openStatements
    /\ IF idx > Len(playlistOperations)
       THEN /\ pc' = "upi_ret"
            /\ UNCHANGED m_error
       ELSE IF abortVisible
       THEN /\ m_error' = AbortedText
            /\ pc' = "upi_ret"
       ELSE /\ pc' = "upi_body"
            /\ UNCHANGED m_error
    /\ UNCHANGED <<dbVars, config, flagVars, m_dbModified, globalVars, opVars,
                   loopVars, logVars, history, threads, call, faults, abortedAfter>>

UpdatePlaylistImagesBody ==
    /\ pc = "upi_body"
    /\ LET op == playlistOperations[idx] IN
       /\ operationCount' = operationCount + 1
       /\ idx' = idx + 1
       /\ pc' = "upi_check"
       /\ IF ~exists(parent_path(op.path))
          THEN /\ skipped' = TRUE
               /\ UNCHANGED <<catalog, m_error, writes, currentProgress, progressLog,
                              stmtCalls>>
          ELSE /\ \E stepOk \in StepResults :
                     IF stmtOk /\ stepOk
                     THEN /\ catalog' = ApplyPlaylistImage(catalog, op, config)
                          /\ writes' = Append(writes, "upi")
                          /\ UNCHANGED m_error
                     ELSE /\ m_error' = SQLiteErrorText
                          /\ UNCHANGED <<catalog, writes>>
               /\ stmtCalls' = stmtCalls \o StatementUse
               /\ checkProgress(operationCount + 1)
               /\ UNCHANGED skipped
    /\ UNCHANGED <<fs, config, flagVars, m_dbModified, totalOperations, opVars,
                   cursor, stmtOk, finishedMsg, phases, prepareFailed, history, threads,
                   call, faults, abortedAfter, openStatements>>

UpdatePlaylistImagesReturn ==
    /\ pc = "upi_ret"
    /\ AfterPhase("uao_prep")
    /\ UNCHANGED <<dbVars, config, flagVars, m_dbModified, globalVars, opVars,
                   loopVars, logVars, history, sideVars>>

(***************************************************************************)
(* updateAlbumOperations                                                   *)
(***************************************************************************)
UpdateAlbumsPrepare ==
    /\ pc = "uao_prep"
    /\ phases' = Append(phases, "uao")
    /\ IF config.processAlbums
       THEN /\ stmtOk' = PrepareSucceeds(SetClause(config))
            /\ idx' = 1
            /\ stmtCalls' = <<"prepare">>
            /\ openStatements' = openStatements + (IF stmtOk' THEN 1 ELSE 0)
            /\ pc' = "uao_check"
       ELSE /\ pc' = "uao_ret"
            /\ stmtCalls' = <<>>
            /\ UNCHANGED <<stmtOk, idx, openStatements>>
    /\ UNCHANGED <<dbVars, config, flagVars, m_error, m_dbModified, globalVars, opVars,
                   cursor, progressLog, finishedMsg, writes, skipped, prepareFailed,
                   history, threads, call, faults, abortedAfter>>

UpdateAlbumsCheck ==
    /\ pc = "uao_check"
    \* sqlite3_finalize after the loop and on the abort return
    /\ LET finalized == idx > Len(albumOperations) \/ abortVisible
       IN  /\ stmtCalls' = IF finalized THEN Append(stmtCalls, "finalize") ELSE stmtCalls
           /\ openStatements' = IF finalized /\ stmtOk
                                THEN openStatements - 1 ELSE openStatements
    /\ IF idx > Len(albumOperations)
       THEN /\ pc' = "uao_ret"
            /\ UNCHANGED m_error
       ELSE IF abortVisible
       THEN /\ m_error' = AbortedText
            /\ pc' = "uao_ret"
       ELSE /\ pc' = "uao_body"
            /\ UNCHANGED m_error
    /\ UNCHANGED <<dbVars, config, flagVars, m_dbModified, globalVars, opVars,
                   loopVars, logVars, history, threads, call, faults, abortedAfter>>

\* canonical(op.path) is computed before the existence check and throws when
\* the path does not exist
UpdateAlbumsBody ==
    /\ pc = "uao_body"
    /\ LET op == albumOperations[idx] IN
       IF ~exists(op.path)
       THEN /\ Throw
            /\ UNCHANGED <<catalog, operationCount, idx, writes, currentProgress,
                           progressLog, stmtCalls>>
       ELSE /\ operationCount' = operationCount + 1
            /\ idx' = idx + 1
            /\ pc' = "uao_check"
            /\ \E stepOk \in StepResults :
                  IF stmtOk /\ stepOk
                  THEN /\ catalog' = ApplyAlbum(catalog, op, config)
                       /\ writes' = Append(writes, "uao")
                       /\ UNCHANGED m_error
                  ELSE /\ m_error' = SQLiteErrorText
                       /\ UNCHANGED <<catalog, writes>>
            /\ stmtCalls' = stmtCalls \o StatementUse
            /\ checkProgress(operationCount + 1)
    /\ UNCHANGED <<fs, config, flagVars, m_dbModified, totalOperations, opVars,
                   cursor, stmtOk, finishedMsg, phases, skipped, prepareFailed,
                   history, threads, call, faults, abortedAfter, openStatements>>

UpdateAlbumsReturn ==
    /\ pc = "uao_ret"
    /\ AfterPhase("utn_prep")
    /\ UNCHANGED <<dbVars, config, flagVars, m_dbModified, globalVars, opVars,
                   loopVars, logVars, history, sideVars>>

(***************************************************************************)
(* updateTrackNumbers                                                      *)
(***************************************************************************)
UpdateTrackNumbersPrepare ==
    /\ pc = "utn_prep"
    /\ phases' = Append(phases, "utn")
    /\ IF config.processTracksNumbers
       THEN /\ stmtOk' = TRUE
            /\ idx' = 1
            /\ stmtCalls' = <<"prepare">>
            /\ openStatements' = openStatements + (IF stmtOk' THEN 1 ELSE 0)
            /\ pc' = "utn_check"
       ELSE /\ pc' = "utn_ret"
            /\ stmtCalls' = <<>>
            /\ UNCHANGED <<stmtOk, idx, openStatements>>
    /\ UNCHANGED <<dbVars, config, flagVars, m_error, m_dbModified, globalVars, opVars,
                   cursor, progressLog, finishedMsg, writes, skipped, prepareFailed,
                   history, threads, call, faults, abortedAfter>>

\* variant: the flag is seen and the error text set, but the loop goes on
UpdateTrackNumbersCheckWithoutReturn ==
    /\ pc = "utn_check"
    \* sqlite3_finalize after the loop
    /\ LET finalized == idx > Len(trackOperations)
       IN  /\ stmtCalls' = IF finalized THEN Append(stmtCalls, "finalize") ELSE stmtCalls
           /\ openStatements' = IF finalized /\ stmtOk
                                THEN openStatements - 1 ELSE openStatements
    /\ IF idx > Len(trackOperations)
       THEN /\ pc' = "utn_ret"
            /\ UNCHANGED m_error
       ELSE IF abortVisible
       THEN /\ m_error' = AbortedText
            /\ pc' = "utn_body"
       ELSE /\ pc' = "utn_body"
            /\ UNCHANGED m_error
    /\ UNCHANGED <<dbVars, config, flagVars, m_dbModified, globalVars, opVars,
                   loopVars, logVars, history, threads, call, faults, abortedAfter>>

UpdateTrackNumbersCheck ==
    /\ pc = "utn_check"
    \* sqlite3_finalize after the loop and on the abort return
    /\ LET finalized == idx > Len(trackOperations) \/ abortVisible
       IN  /\ stmtCalls' = IF finalized THEN Append(stmtCalls, "finalize") ELSE stmtCalls
           /\ openStatements' = IF finalized /\ stmtOk
                                THEN openStatements - 1 ELSE openStatements
    /\ IF idx > Len(trackOperations)
       THEN /\ pc' = "utn_ret"
            /\ UNCHANGED m_error
       ELSE IF abortVisible
       THEN /\ m_error' = AbortedText
            /\ pc' = "utn_ret"
       ELSE /\ pc' = "utn_body"
            /\ UNCHANGED m_error
    /\ UNCHANGED <<dbVars, config, flagVars, m_dbModified, globalVars, opVars,
                   loopVars, logVars, history, threads, call, faults, abortedAfter>>

UpdateTrackNumbersBody ==
    /\ pc = "utn_body"
    /\ LET op == trackOperations[idx] IN
       /\ \E stepOk \in StepResults :
             IF stepOk
             THEN /\ catalog' = ApplyTrackNumber(catalog, op)
                  /\ writes' = Append(writes, "utn")
                  /\ UNCHANGED m_error
             ELSE /\ m_error' = SQLiteErrorText
                  /\ UNCHANGED <<catalog, writes>>
       /\ stmtCalls' = stmtCalls \o StatementUse
       /\ operationCount' = operationCount + 1
       /\ checkProgress(operationCount + 1)
       /\ idx' = idx + 1
       /\ pc' = "utn_check"
    /\ UNCHANGED <<fs, config, flagVars, m_dbModified, totalOperations, opVars,
                   cursor, stmtOk, finishedMsg, phases, skipped, prepareFailed,
                   history, threads, call, faults, abortedAfter, openStatements>>

UpdateTrackNumbersReturn ==
    /\ pc = "utn_ret"
    /\ AfterPhase("upt_prep")
    /\ UNCHANGED <<dbVars, config, flagVars, m_dbModified, globalVars, opVars,
                   loopVars, logVars, history, sideVars>>

(***************************************************************************)
(* updatePlaylistTracks                                                    *)
(***************************************************************************)
UpdatePlaylistTracksPrepare ==
    /\ pc = "upt_prep"
    /\ phases' = Append(phases, "upt")
    /\ IF config.processPlaylistTracklist
       THEN /\ stmtOk' = TRUE
            /\ idx' = 1
            /\ stmtCalls' = <<"prepare">>
            /\ openStatements' = openStatements + (IF stmtOk' THEN 1 ELSE 0)
            /\ pc' = "upt_check"
       ELSE /\ pc' = "upt_ret"
            /\ stmtCalls' = <<>>
            /\ UNCHANGED <<stmtOk, idx, openStatements>>
    /\ UNCHANGED <<dbVars, config, flagVars, m_error, m_dbModified, globalVars, opVars,
                   cursor, progressLog, finishedMsg, writes, skipped, prepareFailed,
                   history, threads, call, faults, abortedAfter>>

UpdatePlaylistTracksCheck ==
    /\ pc = "upt_check"
    \* sqlite3_finalize after the loop only: the abort return leaves without it
    /\ LET finalized == idx > Len(playlistTracksOperations)
       IN  /\ stmtCalls' = IF finalized THEN Append(stmtCalls, "finalize") ELSE stmtCalls
           /\ openStatements' = IF finalized /\ stmtOk
                                THEN openStatements - 1 ELSE openStatements
    /\ IF idx > Len(playlistTracksOperations)
       THEN /\ pc' = "upt_ret"
            /\ UNCHANGED m_error
       ELSE IF abortVisible
       THEN /\ m_error' = AbortedText
            /\ pc' = "upt_ret"
       ELSE /\ pc' = "upt_body"
            /\ UNCHANGED m_error
    /\ UNCHANGED <<dbVars, config, flagVars, m_dbModified, globalVars, opVars,
                   loopVars, logVars, history, threads, call, faults, abortedAfter>>

UpdatePlaylistTracksBody ==
    /\ pc = "upt_body"
    /\ LET op == playlistTracksOperations[idx] IN
       /\ \E stepOk \in StepResults :
             IF stepOk
             THEN /\ catalog' = ApplyPlaylistTracks(catalog, op)
                  /\ writes' = Append(writes, "upt")
                  /\ UNCHANGED m_error
             ELSE /\ m_error' = SQLiteErrorText
                  /\ UNCHANGED <<catalog, writes>>
       /\ stmtCalls' = stmtCalls \o StatementUse
       /\ operationCount' = operationCount + 1
       /\ checkProgress(operationCount + 1)
       /\ idx' = idx + 1
       /\ pc' = "upt_check"
    /\ UNCHANGED <<fs, config, flagVars, m_dbModified, totalOperations, opVars,
                   cursor, stmtOk, finishedMsg, phases, skipped, prepareFailed,
                   history, threads, call, faults, abortedAfter, openStatements>>

\* run() after the last applier: no look at the flag; "Finished!" and
\* progress(100)
UpdatePlaylistTracksReturn ==
    /\ pc = "upt_ret"
    /\ finishedMsg' = TRUE
    /\ progressLog' = Append(progressLog, 100)
    /\ pc' = "finished"
    /\ UNCHANGED <<dbVars, config, flagVars, m_error, m_dbModified, globalVars, opVars,
                   loopVars, writes, phases, skipped, prepareFailed, history, sideVars>>

(***************************************************************************)
(* The dialog thread.                                                      *)
(***************************************************************************)
Running == pc \notin {"idle", "finished", "crashed"}

ApplierLoop == {"upi_check", "upi_body", "uao_check", "uao_body",
                "utn_check", "utn_body", "upt_check", "upt_body"}
BetweenAppliers == {"upi_prep", "upi_ret", "uao_prep", "uao_ret",
                    "utn_prep", "utn_ret", "upt_prep", "upt_ret"}

\* the phase of the run (spec 4.7) the worker is in
PhaseOf(position) ==
    IF position = "start" THEN "Counting"
    ELSE IF position \in ApplierLoop THEN "Applying"
    ELSE IF position \in BetweenAppliers THEN "BetweenAppliers"
    ELSE "Generating"

\* Cancel pressed while the thread runs: m_thread->abort()
CancelPressed ==
    /\ Running
    /\ cancelledAt = "none"
    /\ cancelledAt' = PhaseOf(pc)
    /\ m_abort' = TRUE
    /\ abortedAfter' = Len(writes)
    /\ UNCHANGED <<dbVars, pc, config, abortVisible, terminated, m_error, m_dbModified,
                   globalVars, opVars, loopVars, logVars, history, threads, call, faults,
                   stmtCalls, openStatements>>

\* the write of the flag reaches the worker thread
AbortBecomesVisible ==
    /\ m_abort
    /\ ~abortVisible
    /\ abortVisible' = TRUE
    /\ UNCHANGED <<dbVars, pc, config, m_abort, cancelledAt, terminated, m_error,
                   m_dbModified, globalVars, opVars, loopVars, logVars, history, sideVars>>

\* the worker's next statement is "emit message(...)", delivered through a
\* blocking queued connection to the dialog thread
EmitsMessageNext ==
    \/ pc = "start"
    \/ /\ pc \in {"gpi_loop", "gao_loop"}
       /\ cursor # <<>>
       /\ ~abortVisible
    \/ /\ pc = "gtn_loop"
       /\ cursor # <<>>
       /\ ~abortVisible
       /\ \/ ~exists(catalog[Head(cursor)].Path)
          \/ Len(Split(stem(catalog[Head(cursor)].Path), SEPARATOR)) < 2
    \/ /\ pc = "gpt_ids"
       /\ idx <= Len(playlistTracksOperations)
       /\ ~abortVisible
    \/ /\ pc = "gao_ret"
       /\ ~abortVisible
    \/ pc \in {"upi_body", "uao_body", "utn_body", "upt_body", "upt_ret"}

\* The dialog thread is inside wait(1000) of the Cancel branch and runs no
\* event loop: a message the worker emits now is never delivered, and the
\* worker stays inside the emit.
WorkerBlocksOnMessage ==
    /\ cancelledAt # "none"
    /\ EmitsMessageNext
    /\ pc' = "blocked"
    /\ UNCHANGED <<dbVars, config, flagVars, m_error, m_dbModified, globalVars, opVars,
                   loopVars, logVars, history, sideVars>>

\* the thread still runs when wait(1000) returns: m_thread->terminate()
Terminate ==
    /\ Running
    /\ cancelledAt # "none"
    /\ terminated' = TRUE
    /\ pc' = "finished"
    /\ UNCHANGED <<dbVars, config, m_abort, abortVisible, cancelledAt, m_error,
                   m_dbModified, globalVars, opVars, loopVars, logVars, history, sideVars>>

\* the outcome the dialog reports for the thread
Outcome ==
    IF m_abort THEN "Aborted"
    ELSE IF m_error # NoError THEN "Failed"
    ELSE "Done"

\* MainDialog::onProcessThreadFinished: the outcome is reported and
\* m_thread is reset, which destroys the thread object
OnProcessThreadFinished ==
    /\ pc = "finished"
    /\ history' = Append(history,
           [outcome |-> Outcome, error |-> m_error, config |-> config,
            skipped |-> skipped, updates |-> Len(writes),
            operations |-> Len(playlistOperations) + Len(playlistTracksOperations)
                           + Len(trackOperations) + Len(albumOperations)])
    /\ pc' = "idle"
    /\ config' = AllOptions
    /\ m_abort' = FALSE
    /\ abortVisible' = FALSE
    /\ cancelledAt' = "none"
    /\ terminated' = FALSE
    /\ m_error' = NoError
    /\ m_dbModified' = FALSE
    /\ playlistOperations' = <<>>
    /\ playlistTracksOperations' = <<>>
    /\ trackOperations' = <<>>
    /\ albumOperations' = <<>>
    /\ cursor' = <<>>
    /\ idx' = 0
    /\ stmtOk' = FALSE
    /\ progressLog' = <<>>
    /\ finishedMsg' = FALSE
    /\ writes' = <<>>
    /\ phases' = <<>>
    /\ skipped' = FALSE
    /\ prepareFailed' = "none"
    /\ threads' = threads - 1
    /\ abortedAfter' = -1
    /\ stmtCalls' = <<>>
    /\ openStatements' = 0
    /\ UNCHANGED <<dbVars, globalVars, call, faults>>

\* the steps of the worker thread
Worker ==
    \/ RunBegin
    \/ GenPlaylistImagesPrepare
    \/ GenPlaylistImagesRow
    \/ GenPlaylistImagesReturn
    \/ GenPlaylistTracksPrepare
    \/ GenPlaylistTracksRow
    \/ GenPlaylistTracksIds
    \/ GenPlaylistTracksReturn
    \/ GenTrackNumbersPrepare
    \/ GenTrackNumbersRow
    \/ GenTrackNumbersReturn
    \/ GenAlbumsPrepare
    \/ GenAlbumsRow
    \/ GenAlbumsReturn
    \/ UpdatePlaylistImagesPrepare
    \/ UpdatePlaylistImagesCheck
    \/ UpdatePlaylistImagesBody
    \/ UpdatePlaylistImagesReturn
    \/ UpdateAlbumsPrepare
    \/ UpdateAlbumsCheck
    \/ UpdateAlbumsBody
    \/ UpdateAlbumsReturn
    \/ UpdateTrackNumbersPrepare
    \/ UpdateTrackNumbersCheck
    \/ UpdateTrackNumbersBody
    \/ UpdateTrackNumbersReturn
    \/ UpdatePlaylistTracksPrepare
    \/ UpdatePlaylistTracksCheck
    \/ UpdatePlaylistTracksBody
    \/ UpdatePlaylistTracksReturn

(***************************************************************************)
(* The disk while a run is in progress: the user deletes a music folder    *)
(* with everything in it, or a single track file.                          *)
(***************************************************************************)
IsUnder(e, p) == Len(e) >= Len(p) /\ SubSeq(e, 1, Len(p)) = p

Removable == {AlbumA, Track1}

PathRemoved ==
    /\ pc \notin {"idle", "finished", "crashed"}
    /\ \E p \in Removable :
          /\ p \in fs
          /\ fs' = {e \in fs : ~IsUnder(e, p)}
    /\ UNCHANGED <<catalog, pc, config, flagVars, m_error, m_dbModified, globalVars,
                   opVars, loopVars, logVars, history, sideVars>>

(***************************************************************************)
(* Spec: one run of the pipeline, which the user may cancel at any moment. *)
(***************************************************************************)
Next ==
    \/ StartRun
    \/ Worker
    \/ CancelPressed
    \/ AbortBecomesVisible
    \/ WorkerBlocksOnMessage
    \/ Terminate
    \/ OnProcessThreadFinished

Spec == Init /\ [][Next]_vars

(***************************************************************************)
(* SpecDisk: one run, not cancelled, during which paths may disappear.     *)
(***************************************************************************)
NextDisk ==
    \/ StartRun
    \/ Worker
    \/ PathRemoved
    \/ OnProcessThreadFinished

SpecDisk == Init /\ [][NextDisk]_vars

(***************************************************************************)
(* SpecRerun: up to MaxRuns runs one after the other in the same process,  *)
(* none of them cancelled.                                                 *)
(***************************************************************************)
NextRerun ==
    \/ StartRun
    \/ StartAgain
    \/ Worker
    \/ OnProcessThreadFinished

SpecRerun == Init /\ [][NextRerun]_vars

(***************************************************************************)
(* SpecFault: one run, not cancelled, against a database that may refuse a *)
(* count query or the step of an UPDATE.                                   *)
(***************************************************************************)
InitFault ==
    /\ catalog \in Catalogs
    /\ fs \in Disks
    /\ pc = "idle"
    /\ config = AllOptions
    /\ m_abort = FALSE
    /\ abortVisible = FALSE
    /\ m_error = NoError
    /\ m_dbModified = FALSE
    /\ operationCount = 0
    /\ totalOperations = 0
    /\ currentProgress = 0
    /\ playlistOperations = <<>>
    /\ playlistTracksOperations = <<>>
    /\ trackOperations = <<>>
    /\ albumOperations = <<>>
    /\ cursor = <<>>
    /\ idx = 0
    /\ stmtOk = FALSE
    /\ cancelledAt = "none"
    /\ terminated = FALSE
    /\ progressLog = <<>>
    /\ finishedMsg = FALSE
    /\ writes = <<>>
    /\ phases = <<>>
    /\ skipped = FALSE
    /\ prepareFailed = "none"
    /\ history = <<>>
    /\ threads = 0
    /\ call = NoCall
    /\ faults = TRUE
    /\ abortedAfter = -1
    /\ stmtCalls = <<>>
    /\ openStatements = 0

NextFault ==
    \/ StartRun
    \/ Worker
    \/ OnProcessThreadFinished

SpecFault == InitFault /\ [][NextFault]_vars

(***************************************************************************)
(* SpecParse: the two naming heuristics on their own.  A name is handed to *)
(* artistAndAlbumMetadata, or the track file of a directory to the parsing *)
(* part of generateTracksNumberOperationData.                              *)
(***************************************************************************)
Tokens == {<<"a">>, <<"b">>, SEPARATOR, DASH, <<" ">>}

RECURSIVE TextsOf(_)
\* the names made of at most n pieces
TextsOf(n) ==
    IF n = 0 THEN {EmptyString}
    ELSE LET shorter == TextsOf(n - 1)
         IN  shorter \cup {t \o k : t \in shorter, k \in Tokens}

ParseTexts == TextsOf(MaxParts)

ParseDir == <<"M">>
NumberParts ==
    {<<"0", "1">>, <<"7">>, <<"1", "-", "0", "3">>, <<"2", "-", "0", "3">>,
     <<"2", "-", "0", "1">>, <<"0", "2", "-", "0", "5">>}
Titles == {<<"a">>, <<"b">> \o SEPARATOR \o <<"c">>}
TrackStems ==
    {n \o SEPARATOR \o t : n \in NumberParts, t \in Titles}
        \cup {<<"c">>, <<"0", "1", "-", "a">>,
              <<"x">> \o SEPARATOR \o <<"a">>, <<"1", "-", "x">> \o SEPARATOR \o <<"a">>}
ParseFiles ==
    {<<ParseDir, st \o MP3>> : st \in TrackStems}
        \cup {<<ParseDir, <<"F">> \o JPG>>,
              <<ParseDir, <<"2", "-", "0", "0">> \o SEPARATOR \o <<"a">> \o JPG>>}
ParseDisks == {S \in SUBSET ParseFiles : Cardinality(S) \in 1..MaxSiblings}
\* directory names of playlists: a file name cannot end with a space
PlaylistNames ==
    {t \in TextsOf(MaxNameParts) : t # EmptyString /\ t[Len(t)] # " "}
\* directory names with and without the characters LIKE gives a meaning to
LikeDirs == {<<"a", "_", "b">>, <<"a", "c", "b">>, <<"%">>, DirB}
\* a catalog of two rows for the track "t.mp3" of two directories
LikeCatalog(d1, m1, d2, m2) ==
    <<Row(TRACK_VALUE, <<d1, <<"t">> \o MP3>>, m1, OTHER_DATA, "id1"),
      Row(TRACK_VALUE, <<d2, <<"t">> \o MP3>>, m2, OTHER_DATA, "id2")>>
\* directories searched for a cover: one whose name contains the image name
\* and one whose name does not
CoverDirs == {<<"F", "Z">>, DirB}
\* the image files a searched directory may hold
CoverFiles == {<<"F">> \o JPG, <<"b">> \o JPG}
\* stems of playlist files: without separator, "a - b" and " - b"
PlaylistStems ==
    {<<"p">>, <<"a">> \o SEPARATOR \o <<"b">>, SEPARATOR \o <<"b">>}

InitParse ==
    /\ catalog \in {Catalog(AUDIO, FALSE)}
                     \cup {LikeCatalog(d1, m1, d2, m2) :
                               d1 \in LikeDirs, m1 \in {AUDIO, NULL},
                               d2 \in LikeDirs, m2 \in {AUDIO, NULL}}
    /\ pc = "idle"
    /\ config = AllOptions
    /\ m_abort = FALSE
    /\ abortVisible = FALSE
    /\ m_error = NoError
    /\ m_dbModified = FALSE
    /\ operationCount = 0
    /\ totalOperations = 0
    /\ currentProgress = 0
    /\ playlistOperations = <<>>
    /\ playlistTracksOperations = <<>>
    /\ trackOperations = <<>>
    /\ albumOperations = <<>>
    /\ cursor = <<>>
    /\ idx = 0
    /\ stmtOk = FALSE
    /\ cancelledAt = "none"
    /\ terminated = FALSE
    /\ progressLog = <<>>
    /\ finishedMsg = FALSE
    /\ writes = <<>>
    /\ phases = <<>>
    /\ skipped = FALSE
    /\ prepareFailed = "none"
    /\ history = <<>>
    /\ threads = 0
    /\ faults = FALSE
    /\ abortedAfter = -1
    /\ stmtCalls = <<>>
    /\ openStatements = 0
    /\ \/ /\ fs = {}
          /\ catalog = Catalog(AUDIO, FALSE)
          /\ \E t \in ParseTexts :
                call = [NoCall EXCEPT !.fn = "artistAndAlbumMetadata", !.text = t]
       \/ /\ fs \in ParseDisks
          /\ catalog = Catalog(AUDIO, FALSE)
          /\ \E f \in ParseFiles :
                /\ f \in fs
                /\ extension(f) = MP3
                /\ call = [NoCall EXCEPT !.fn = "trackNumber", !.path = f]
       \/ \E d \in PlaylistNames, st \in PlaylistStems :
             /\ catalog = Catalog(AUDIO, FALSE)
             /\ fs = {<<d>>, <<d, st \o M3U>>}
             /\ call = [NoCall EXCEPT !.fn = "playlistMetadata", !.path = <<d, st \o M3U>>]
       \/ \E d \in CoverDirs, files \in SUBSET CoverFiles :
             /\ catalog = Catalog(AUDIO, FALSE)
             /\ fs = {<<d>>} \cup {<<d, f>> : f \in files}
             /\ call = [NoCall EXCEPT !.fn = "albumBlurhash", !.path = <<d>>]
       \/ \E w \in 1..MaxImageSide, h \in 1..MaxImageSide :
             /\ catalog = Catalog(AUDIO, FALSE)
             /\ fs = {}
             /\ call = [NoCall EXCEPT !.fn = "encodeGrid", !.size = <<w, h>>]
       \/ \E m \in 0..MaxMillis :
             /\ catalog = Catalog(AUDIO, FALSE)
             /\ fs = {}
             /\ call = [NoCall EXCEPT !.fn = "writeTime", !.millis = m]
       \/ \E d \in LikeDirs :
             /\ catalog # Catalog(AUDIO, FALSE)
             /\ fs = {<<e>> : e \in LikeDirs} \cup {<<d, <<"p">> \o M3U>>}
             /\ call = [NoCall EXCEPT !.fn = "updatePlaylistImages",
                                      !.path = <<d, <<"p">> \o M3U>>,
                                      !.pair = <<(<<"a">>), <<"b">>>>]

\* the parsing part of one row of generateTracksNumberOperationData: no
\* operation (NullInt) when the stem has fewer than two parts
ParsedTrackNumber(trackPath) ==
    IF Len(Split(stem(trackPath), SEPARATOR)) < 2
    THEN NullInt
    ELSE IntValue(TrackNumber(trackPath))

CallArtistAndAlbumMetadata ==
    /\ call.fn = "artistAndAlbumMetadata"
    /\ ~call.done
    /\ call' = [call EXCEPT !.done = TRUE, !.pair = artistAndAlbumMetadata(call.text)]
    /\ UNCHANGED <<dbVars, pc, config, flagVars, m_error, m_dbModified, globalVars,
                   opVars, loopVars, logVars, history, threads, faults, abortedAfter,
                   stmtCalls, openStatements>>

CallTrackNumber ==
    /\ call.fn = "trackNumber"
    /\ ~call.done
    /\ call' = [call EXCEPT !.done = TRUE, !.number = ParsedTrackNumber(call.path)]
    /\ UNCHANGED <<dbVars, pc, config, flagVars, m_error, m_dbModified, globalVars,
                   opVars, loopVars, logVars, history, threads, faults, abortedAfter,
                   stmtCalls, openStatements>>

\* the metadata part of one row of generatePlaylistImageOperations
CallPlaylistMetadata ==
    /\ call.fn = "playlistMetadata"
    /\ ~call.done
    /\ exists(call.path)
    /\ call' = [call EXCEPT !.done = TRUE, !.pair = PlaylistMetadata(call.path)]
    /\ UNCHANGED <<dbVars, pc, config, flagVars, m_error, m_dbModified, globalVars,
                   opVars, loopVars, logVars, history, threads, faults, abortedAfter,
                   stmtCalls, openStatements>>

\* one operation of the loop of updatePlaylistImages: the operation of the
\* playlist call.path with artist and album call.pair and no image
CallUpdatePlaylistImage ==
    /\ call.fn = "updatePlaylistImages"
    /\ ~call.done
    /\ exists(parent_path(call.path))
    /\ catalog' = ApplyPlaylistImage(catalog,
                      [path |-> call.path, imageData |-> EmptyString,
                       artist |-> call.pair[1], album |-> call.pair[2]], config)
    /\ call' = [call EXCEPT !.done = TRUE]
    /\ UNCHANGED <<fs, pc, config, flagVars, m_error, m_dbModified, globalVars,
                   opVars, loopVars, logVars, history, threads, faults, abortedAfter,
                   stmtCalls, openStatements>>

\* albumBlurhash of the directory call.path; the descriptor goes to call.text
CallAlbumBlurhash ==
    /\ call.fn = "albumBlurhash"
    /\ ~call.done
    /\ exists(call.path)
    /\ \E result \in albumBlurhash(call.path) :
          call' = [call EXCEPT !.done = TRUE, !.text = result]
    /\ UNCHANGED <<dbVars, pc, config, flagVars, m_error, m_dbModified, globalVars,
                   opVars, loopVars, logVars, history, threads, faults, abortedAfter,
                   stmtCalls, openStatements>>

\* the grid computation of albumBlurhash for a decoded image
CallEncodeGrid ==
    /\ call.fn = "encodeGrid"
    /\ ~call.done
    /\ call' = [call EXCEPT !.done = TRUE, !.grid = EncodeGrid(call.size[1], call.size[2])]
    /\ UNCHANGED <<dbVars, pc, config, flagVars, m_error, m_dbModified, globalVars,
                   opVars, loopVars, logVars, history, threads, faults, abortedAfter,
                   stmtCalls, openStatements>>

\* the timestamp computation of albumBlurhash
CallWriteTime ==
    /\ call.fn = "writeTime"
    /\ ~call.done
    /\ call' = [call EXCEPT !.done = TRUE, !.ticks = writeTime(call.millis)]
    /\ UNCHANGED <<dbVars, pc, config, flagVars, m_error, m_dbModified, globalVars,
                   opVars, loopVars, logVars, history, threads, faults, abortedAfter,
                   stmtCalls, openStatements>>

NextParse ==
    \/ CallEncodeGrid
    \/ CallWriteTime
    \/ CallAlbumBlurhash
    \/ CallArtistAndAlbumMetadata
    \/ CallTrackNumber
    \/ CallPlaylistMetadata
    \/ CallUpdatePlaylistImage

SpecParse == InitParse /\ [][NextParse]_vars

(***************************************************************************)
(* Properties.                                                             *)
(***************************************************************************)
GeneratorPhases == <<"gpi", "gpt", "gtn", "gao">>
PhaseOrder == GeneratorPhases \o <<"upi", "uao", "utn", "upt">>
GeneratedOperations ==
    Len(playlistOperations) + Len(playlistTracksOperations)
    + Len(trackOperations) + Len(albumOperations)

\* C1: no step of any run adds or removes a catalog row or changes a row's
\* type or Path; the pipeline only updates other columns of existing rows.
C1_RowsPreserved ==
    [][/\ DOMAIN catalog' = DOMAIN catalog
       /\ \A i \in DOMAIN catalog :
             /\ catalog'[i].type = catalog[i].type
             /\ catalog'[i].Path = catalog[i].Path]_vars

\* a run has ended after every one of the four appliers executed an UPDATE
C1_Witness ==
    /\ pc = "finished"
    /\ {writes[k] : k \in 1..Len(writes)} = {"upi", "uao", "utn", "upt"}

\* C2 (as claimed): whenever a step changes a column of a row, the value it
\* replaces was NULL (for data: the empty-playlist payload).
C2_OnlyNullsReplaced ==
    [][\A i \in DOMAIN catalog :
          /\ catalog'[i].Images # catalog[i].Images => catalog[i].Images = NULL
          /\ catalog'[i].Album # catalog[i].Album => catalog[i].Album = NULL
          /\ catalog'[i].Artists # catalog[i].Artists => catalog[i].Artists = NULL
          /\ catalog'[i].AlbumArtists # catalog[i].AlbumArtists
                => catalog[i].AlbumArtists = NULL
          /\ catalog'[i].IndexNumber # catalog[i].IndexNumber
                => catalog[i].IndexNumber.isNull
          /\ catalog'[i].data # catalog[i].data => catalog[i].data = EMPTY_PLAYLIST]_vars

\* C3 (as claimed): once m_abort is set, no further UPDATE is executed.
C3_NoUpdateAfterFlagSet ==
    [][m_abort => Len(writes') <= Len(writes)]_vars

\* C3 (amended): once the worker has seen the flag at one of its checks and
\* set the error text to "Aborted operation.", no further UPDATE is executed.
C3_NoUpdateOnceObserved ==
    [][m_error = AbortedText => Len(writes') <= Len(writes)]_vars

\* a run cancelled inside an applier loop ended as aborted after some, but
\* not all, of its operations were applied
C3_Witness ==
    /\ pc = "finished"
    /\ cancelledAt = "Applying"
    /\ m_error = AbortedText
    /\ Len(writes) > 0
    /\ Len(writes) < GeneratedOperations

\* C4 (as claimed): a run cancelled while the worker is inside an applier
\* loop ends with the flag set, the error text "Aborted operation." and
\* without the "Finished!" message.  Stated for the runs most favourable to
\* the claim: the thread was not terminated, the flag reached the worker and
\* no statement preparation failed.
C4_CancelWhileApplyingEndsAborted ==
    (pc = "finished" /\ cancelledAt = "Applying" /\ abortVisible /\ ~terminated
         /\ prepareFailed = "none")
        => (m_abort /\ m_error = AbortedText /\ ~finishedMsg)

\* C5 (as claimed): when a run ends, the last value emitted through
\* progress(int) is 100.
C5_LastProgressIs100 ==
    pc = "finished" => (progressLog # <<>> /\ progressLog[Len(progressLog)] = 100)

\* C6 (as claimed): the values emitted through progress(int) in a run never
\* decrease.
C6_ProgressNonDecreasing ==
    \A k \in 1..(Len(progressLog) - 1) : progressLog[k] <= progressLog[k + 1]

\* C7 (as claimed): after a first run with all options that ended without
\* error, skipped row or cancellation, the second run generates no operation
\* and executes no UPDATE.
C7_SecondRunDoesNothing ==
    (/\ Len(history) = 1
     /\ history[1].config = AllOptions
     /\ history[1].outcome = "Done"
     /\ ~history[1].skipped
     /\ pc \notin {"idle", "start"})
        => (GeneratedOperations = 0 /\ writes = <<>>)

\* C8: the phases of a run are entered in the order playlist images,
\* tracklists, track numbers, albums (generators), then playlist images,
\* albums, track numbers, tracklists (appliers); every UPDATE is executed by
\* the applier entered last, hence after all four generators have returned
\* and never by an applier whose successor has started.
C8_PhaseOrder ==
    /\ [](/\ Len(phases) <= Len(PhaseOrder)
          /\ phases = SubSeq(PhaseOrder, 1, Len(phases))
          /\ writes # <<>> => Len(phases) > Len(GeneratorPhases))
    /\ [][Len(writes') > Len(writes)
            => /\ phases' = phases
               /\ writes'[Len(writes')] = phases[Len(phases)]]_vars

\* a run went through all eight phases and every applier executed an UPDATE
C8_Witness ==
    /\ phases = PhaseOrder
    /\ {writes[k] : k \in 1..Len(writes)} = {"upi", "uao", "utn", "upt"}
    /\ finishedMsg

\* C9 (as claimed): after a failed statement preparation in a generator no
\* later phase is entered, no UPDATE is executed, and the run ends Failed.
C9_PrepareFailureStopsRun ==
    prepareFailed # "none"
        => /\ phases[Len(phases)] = prepareFailed
           /\ writes = <<>>
           /\ pc = "finished" => Outcome = "Failed"

\* C10 (as claimed): a run the user did not cancel never ends with the flag
\* set or with the error text "Aborted operation."; a failed preparation is
\* reported with its own error text.
C10_AbortedOnlyWhenCancelled ==
    (pc = "finished" /\ cancelledAt = "none")
        => /\ ~m_abort
           /\ m_error # AbortedText
           /\ prepareFailed # "none" => m_error = PrepareErrorText


\* albumBlurhash(albumPath) is about to iterate a directory that does not
\* exist: directory_iterator throws filesystem_error
AlbumDirectoryMissing ==
    /\ pc = "gao_loop"
    /\ cursor # <<>>
    /\ ~abortVisible
    /\ SameAs(catalog[Head(cursor)].Path) = {}
    /\ ~exists(catalog[Head(cursor)].Path)

\* updateAlbumOperations is about to call canonical(op.path) on a path that
\* does not exist: canonical throws filesystem_error
CanonicalThrows ==
    /\ pc = "uao_body"
    /\ ~exists(albumOperations[idx].path)

\* C11: wherever the pipeline throws (iterating a missing album directory
\* in the album generator, canonical() of a missing album path in the album
\* applier), the worker's next step is the handler of run(): error() becomes
\* the non-empty run-level text and the thread function returns normally;
\* the exception never leaves run().
C11_ExceptionsAreCaught ==
    [][((AlbumDirectoryMissing \/ CanonicalThrows) /\ pc' # pc)
          => (pc' = "finished" /\ m_error' = ExceptionText /\ m_error' # NoError)]_vars

\* an exception thrown by the album applier after the playlist applier has
\* already written
C11_Witness ==
    /\ pc = "finished"
    /\ m_error = ExceptionText
    /\ writes # <<>>
    /\ phases[Len(phases)] = "uao"

\* a generator is at a row whose Path does not exist on disk
RowPathMissing ==
    /\ pc \in {"gpi_loop", "gpt_loop", "gtn_loop", "gao_loop"}
    /\ cursor # <<>>
    /\ ~abortVisible
    /\ ~exists(catalog[Head(cursor)].Path)

\* C12 (as claimed): a generator that reaches a row whose path does not
\* exist on disk skips it: it moves to the next row, produces no operation
\* and leaves the error text alone.
C12_MissingPathIsSkipped ==
    [][(RowPathMissing /\ (pc' # pc \/ cursor' # cursor))
          => /\ pc' = pc
             /\ cursor' = Tail(cursor)
             /\ opVars' = opVars
             /\ m_error' = m_error]_vars

\* an applier is about to process an operation whose directory or file does
\* not exist on disk any more
OperationPathMissing ==
    \/ pc = "upi_body" /\ ~exists(parent_path(playlistOperations[idx].path))
    \/ pc = "uao_body" /\ ~exists(albumOperations[idx].path)
    \/ pc = "utn_body" /\ ~exists(trackOperations[idx].path)
    \/ pc = "upt_body" /\ ~exists(playlistTracksOperations[idx].path)

\* C13 (as claimed): an applier that reaches an operation whose path does not
\* exist counts it (operationCount + 1), executes no UPDATE for it and goes
\* on without error.
C13_MissingOperationIsSkipped ==
    [][(OperationPathMissing /\ pc' # pc)
          => /\ operationCount' = operationCount + 1
             /\ writes' = writes
             /\ catalog' = catalog
             /\ m_error' = m_error
             /\ pc' # "finished"]_vars

\* C14 (as claimed): when updatePlaylistImages or updateAlbumOperations
\* applies an operation, the target rows get Artists, AlbumArtists and Album
\* exactly when processTracksArtists is set and Images exactly when
\* processPlaylistImages is set.
C14_SetClauseFollowsOptions ==
    [][/\ (pc = "upi_body" /\ pc' = "upi_check"
             /\ exists(parent_path(playlistOperations[idx].path)))
          => catalog' = ApplyPlaylistImage(catalog, playlistOperations[idx], config)
       /\ (pc = "uao_body" /\ pc' = "uao_check")
          => catalog' = ApplyAlbum(catalog, albumOperations[idx], config)]_vars

\* the directory whose cover a row would get
RowDirectory(r) == IF r.type = ALBUM_VALUE THEN r.Path ELSE parent_path(r.Path)

\* the directory holds an entry whose path text contains the image name
HasCover(dir) == \E e \in DirectoryEntries(dir) : Contains(PathString(e), ImageName)

\* C15 (as claimed): a row whose directory holds no file with the image name
\* in it keeps the NULL its Images column had before the run (every explored
\* catalog starts with Images NULL in every row).
C15_NoCoverLeavesImagesNull ==
    \A i \in Rows : ~HasCover(RowDirectory(catalog[i])) => catalog[i].Images = NULL

\* a run with all options that ended with "Finished!", without error,
\* cancellation or skipped row
RunSucceeded ==
    /\ pc = "finished"
    /\ config = AllOptions
    /\ finishedMsg
    /\ m_error = NoError
    /\ ~m_abort
    /\ ~terminated
    /\ ~skipped

\* C16 (as claimed): after a successful run with all options, every Playlist
\* row whose directory exists (all of them start with NULL Artists, Album and
\* Images and the empty-playlist payload) has a payload other than the
\* sentinel and non-null Artists, AlbumArtists and Album, and every Audio row
\* of the playlist's directory holds the artist, album and image of the
\* playlist's operation.
C16_PlaylistEndToEnd ==
    RunSucceeded =>
        \A i \in Rows :
            (catalog[i].type = PLAYLIST_VALUE /\ exists(parent_path(catalog[i].Path)))
            => /\ catalog[i].data # EMPTY_PLAYLIST
               /\ catalog[i].Artists # NULL
               /\ catalog[i].AlbumArtists # NULL
               /\ catalog[i].Album # NULL
               /\ \A j \in Rows :
                      (/\ catalog[j].type = TRACK_VALUE
                       /\ parent_path(catalog[j].Path) = parent_path(catalog[i].Path))
                      => /\ catalog[j].Artists = PlaylistMetadata(catalog[i].Path)[1]
                         /\ catalog[j].Album = PlaylistMetadata(catalog[i].Path)[2]
                         /\ catalog[j].Images \in albumBlurhash(parent_path(catalog[i].Path))

\* index of the first occurrence of the separator in a text, 0 if none
FirstSeparator(text) ==
    LET at == {i \in 1..Len(text) : IsPrefixAt(text, SEPARATOR, i)}
    IN  IF at = {} THEN 0 ELSE CHOOSE i \in at : \A j \in at : i <= j

AllDigits(t) == Len(t) > 0 /\ \A i \in 1..Len(t) : IsDigit(t[i])

\* C17: artistAndAlbumMetadata of a name that contains " - " is the text
\* before the first " - " and the whole text after it (the remaining
\* segments rejoined with " - "); of a name without " - " it is the empty
\* pair.
C17_ArtistAndAlbumSplit ==
    (call.fn = "artistAndAlbumMetadata" /\ call.done) =>
        LET t == call.text
            i == FirstSeparator(t)
        IN  IF i = 0
            THEN call.pair = EmptyPair
            ELSE call.pair = <<SubSeq(t, 1, i - 1), SubSeq(t, i + Len(SEPARATOR), Len(t))>>

\* "a - b - a" gives ("a", "b - a")
C17_Witness ==
    /\ call.done
    /\ call.text = <<"a">> \o SEPARATOR \o <<"b">> \o SEPARATOR \o <<"a">>
    /\ call.pair = <<(<<"a">>), <<"b">> \o SEPARATOR \o <<"a">>>>

\* the .mp3 entries of a file's directory that sort at or before the file
Mp3UpTo(f) ==
    {e \in DirectoryEntries(parent_path(f)) :
        extension(e) = MP3 /\ (e = f \/ PathLess(e, f))}

\* C18: the track number of a stem "NN - Title" is NN; of "1-NN - Title" it
\* is NN; of "D-NN - Title" with D other than "1" it is the 1-based position
\* of the file among the .mp3 entries of its directory in sorted order; a
\* stem without " - " gives no operation.
C18_TrackNumberParsing ==
    (call.fn = "trackNumber" /\ call.done) =>
        LET st == stem(call.path)
            i == FirstSeparator(st)
            np == SubSeq(st, 1, i - 1)
            dashes == {k \in 1..Len(np) : np[k] = "-"}
            k == CHOOSE x \in dashes : TRUE
            disc == SubSeq(np, 1, k - 1)
            nn == SubSeq(np, k + 1, Len(np))
        IN  IF i = 0 THEN call.number = NullInt
            ELSE IF AllDigits(np) THEN call.number = IntValue(DecimalValue(np, 0))
            ELSE IF Cardinality(dashes) = 1 /\ AllDigits(disc) /\ AllDigits(nn)
            THEN IF disc = <<"1">>
                 THEN call.number = IntValue(DecimalValue(nn, 0))
                 ELSE call.number = IntValue(Cardinality(Mp3UpTo(call.path)))
            ELSE TRUE

\* "2-03 - a.mp3" next to "01 - a.mp3" and an image that sorts between them
C18_Witness ==
    /\ call.done
    /\ call.path = <<ParseDir, <<"2", "-", "0", "3">> \o SEPARATOR \o <<"a">> \o MP3>>
    /\ fs = {call.path,
             <<ParseDir, <<"0", "1">> \o SEPARATOR \o <<"a">> \o MP3>>,
             <<ParseDir, <<"2", "-", "0", "0">> \o SEPARATOR \o <<"a">> \o JPG>>}
    /\ call.number = IntValue(2)

\* C19 (as claimed): a cancelled worker always stops by itself; it is never
\* left inside a blocking message delivery and the dialog never has to call
\* terminate().
C19_CancellationIsCooperative ==
    cancelledAt # "none" => (pc # "blocked" /\ ~terminated)

\* C20: at most one ProcessThread object exists at any time, whether the
\* thread is running, being cancelled or finished and not yet reported.
C20_AtMostOneWorker ==
    /\ threads <= 1
    /\ threads = 0 <=> pc = "idle"

\* a cancelled thread that has ended and is not yet reported: the button
\* reads "Update DB" again while m_thread is still set
C20_Witness ==
    /\ threads = 1
    /\ pc = "finished"
    /\ cancelledAt # "none"
    /\ m_error = AbortedText

\* C21 (as claimed): when a run ends, hasModifiedDB() is true exactly when
\* the run executed at least one UPDATE.  Stated for the runs the user did
\* not cancel.
C21_ModifiedIffUpdated ==
    (pc = "finished" /\ cancelledAt = "none") => (m_dbModified <=> writes # <<>>)

\* the total the claim gives: twice the playlists to complete, twice the
\* playlists with the empty payload, twice the tracks without number, once
\* the albums to complete, over the enabled options
ClaimedTotal ==
    (IF config.processPlaylistImages
     THEN 2 * Cardinality({i \in Rows : PlaylistImagePredicate(catalog[i])}) ELSE 0)
    + (IF config.processPlaylistTracklist
       THEN 2 * Cardinality({i \in Rows : PlaylistTracksPredicate(catalog[i])}) ELSE 0)
    + (IF config.processTracksNumbers
       THEN 2 * Cardinality({i \in Rows : TrackNumberPredicate(catalog[i])}) ELSE 0)
    + (IF config.processAlbums
       THEN Cardinality({i \in Rows : AlbumPredicate(catalog[i])}) ELSE 0)

\* C22 (as claimed): when the counting of a run finishes, first run or later,
\* totalOperations is the total of that run's counts.
C22_TotalIsTheRunsCount ==
    [][(pc = "start" /\ pc' # "start") => totalOperations' = ClaimedTotal]_vars

\* C23 (as claimed): operationCount never exceeds totalOperations, and every
\* value emitted through progress(int) lies in 0..100.
C23_CountWithinTotal ==
    /\ operationCount <= totalOperations
    /\ \A k \in 1..Len(progressLog) : progressLog[k] \in 0..100

\* C24: at every position of the worker after the counting, totalOperations
\* is not 0, so no checkProgress divides by zero, also when count queries
\* fail and contribute 0.
C24_NoDivisionByZero ==
    pc \notin {"idle", "start", "finished", "crashed", "blocked"} => totalOperations > 0

\* a count query failed, the total is smaller than the number of rows found
\* later, and checkProgress has been executed
C24_Witness ==
    /\ faults
    /\ pc = "gpi_loop"
    /\ operationCount = 1
    /\ history = <<>>
    /\ totalOperations < CountedOperations(config, 0, {})
    /\ Len(progressLog) > 1

PhaseReturned ==
    {"gpi_ret", "gpt_ret", "gtn_ret", "gao_ret", "upi_ret", "uao_ret", "utn_ret", "upt_ret"}

\* C26 (as claimed): when a generator or an applier has returned, and when
\* the run has ended, no prepared statement is left open.  Stated for the
\* runs most favourable to the claim: the thread was not terminated and no
\* exception was thrown.
C26_StatementsAreFinalized ==
    (pc \in PhaseReturned \cup {"finished"} /\ ~terminated /\ m_error # ExceptionText)
        => openStatements = 0

\* C27: the calls made on the UPDATE statement of an applier phase are one
\* prepare, then bind, step, clear bindings, reset for every operation
\* applied, in this order, then at most one finalize, made only when the loop
\* has been left.
C27_StatementProtocol ==
    LET n == Len(stmtCalls)
        order == <<"bind", "step", "clear", "reset">>
        closed == n > 0 /\ stmtCalls[n] = "finalize"
        last == IF closed THEN n - 1 ELSE n
    IN  n > 0 =>
          /\ stmtCalls[1] = "prepare"
          /\ (last - 1) % 4 = 0
          /\ \A k \in 2..last : stmtCalls[k] = order[((k - 2) % 4) + 1]
          /\ closed => pc \notin ApplierLoop

\* the track-number applier was cancelled after its first operation: one
\* prepare, one operation applied, the finalize of the abort return
C27_Witness ==
    /\ pc = "utn_ret"
    /\ m_error = AbortedText
    /\ Len(trackOperations) = 2
    /\ stmtCalls = <<"prepare", "bind", "step", "clear", "reset", "finalize">>

\* C28: when the bind or step of an operation fails in an applier of a run
\* that is not cancelled, the error text is recorded and the loop goes on
\* with the next operation; an applier returns only after it has gone
\* through all its operations; and a run that recorded such an error ends
\* after all eight phases, with "Finished!" and a non-empty error().
C28_FailedStepDoesNotStopRun ==
    /\ [][(Len(stmtCalls') = Len(stmtCalls) + 4 /\ Len(writes') = Len(writes))
             => /\ m_error' = SQLiteErrorText
                /\ idx' = idx + 1
                /\ pc' \in ApplierLoop]_vars
    /\ [](/\ (pc = "upi_ret" /\ ~m_abort)
                => Len(stmtCalls) = 4 * Len(playlistOperations) + 2
          /\ (pc = "uao_ret" /\ ~m_abort /\ config.processAlbums)
                => Len(stmtCalls) = 4 * Len(albumOperations) + 2
          /\ (pc = "utn_ret" /\ ~m_abort /\ config.processTracksNumbers)
                => Len(stmtCalls) = 4 * Len(trackOperations) + 2
          /\ (pc = "upt_ret" /\ ~m_abort /\ config.processPlaylistTracklist)
                => Len(stmtCalls) = 4 * Len(playlistTracksOperations) + 2
          /\ (pc = "finished" /\ m_error = SQLiteErrorText)
                => (phases = PhaseOrder /\ finishedMsg /\ m_error # NoError))

\* both UPDATEs of the playlist applier failed, and the tracklist applier,
\* the last one, still executed its UPDATEs
C28_Witness ==
    /\ faults
    /\ pc = "finished"
    /\ config = AllOptions
    /\ m_error = SQLiteErrorText
    /\ Len(playlistOperations) = 2
    /\ \A k \in 1..Len(writes) : writes[k] # "upi"
    /\ writes # <<>>
    /\ writes[Len(writes)] = "upt"

\* an .mp3 file collected for a tracklist has no Track row
OrphanTrack ==
    \E k \in 1..Len(playlistTracksOperations) :
        \E t \in 1..Len(playlistTracksOperations[k].tracks) :
            TrackRowsAt(playlistTracksOperations[k].tracks[t]) = {}

\* C29: in a run that collected an .mp3 file without Track row no UPDATE is
\* ever executed, the worker never gets past the tracklist generator, and
\* the run does not end as Done: when the worker has stopped, error() is not
\* empty or the run was cancelled.
C29_MissingTrackRowFailsRun ==
    OrphanTrack =>
        /\ writes = <<>>
        /\ Len(phases) <= 2
        /\ pc \in {"finished", "crashed"} => (m_error # NoError \/ m_abort)
        /\ pc = "finished" => Outcome # "Done"

\* the lookup of the file without row threw and run() caught the exception
C29_Witness ==
    /\ OrphanTrack
    /\ pc = "finished"
    /\ cancelledAt = "none"
    /\ m_error = ExceptionText
    /\ phases = <<"gpi", "gpt">>

\* C30: whenever the worker is inside updatePlaylistTracks, every operation
\* of the list has as many track ids as tracks.
C30_TrackIdsMatchTracks ==
    pc \in {"upt_check", "upt_body"} =>
        \A k \in 1..Len(playlistTracksOperations) :
            Len(playlistTracksOperations[k].track_ids)
                = Len(playlistTracksOperations[k].tracks)

\* the tracklist applier is about to build the payload of a playlist with
\* two tracks
C30_Witness ==
    /\ pc = "upt_body"
    /\ Len(playlistTracksOperations[idx].tracks) = 2
    /\ Len(playlistTracksOperations[idx].track_ids) = 2


\* the .mp3 entries of the directory of a playlist
Mp3Entries(playlistPath) ==
    {e \in DirectoryEntries(parent_path(playlistPath)) : extension(e) = MP3}

\* C31: every Playlist row whose payload was written has a LinkedChildren
\* array with one element per .mp3 entry of the playlist's directory and no
\* other, in strictly increasing path order; each element has as Path the
\* file name of its entry, Type "Manual" and as ItemId the id of the Track
\* row of that entry.
C31_PayloadListsMp3Entries ==
    \A i \in Rows :
        (catalog[i].type = PLAYLIST_VALUE /\ catalog[i].data \notin {EMPTY_PLAYLIST, OTHER_DATA})
        => LET children == catalog[i].data.LinkedChildren
               entries == Mp3Entries(catalog[i].Path)
           IN  /\ Len(children) = Cardinality(entries)
               /\ \A e \in entries : \E k \in 1..Len(children) : children[k].Path = filename(e)
               /\ \A k \in 1..Len(children) :
                      /\ children[k].Type = "Manual"
                      /\ \E e \in entries :
                            /\ children[k].Path = filename(e)
                            /\ \E j \in Rows : /\ catalog[j].type = TRACK_VALUE
                                               /\ catalog[j].Path = e
                                               /\ children[k].ItemId = catalog[j].guid
               /\ \A k \in 1..Len(children) : \A l \in 1..Len(children) :
                      k < l => StrLess(children[k].Path, children[l].Path)

\* the payload of the playlist of a folder with two tracks was written
C31_Witness ==
    /\ pc = "finished"
    /\ \E i \in Rows :
          /\ catalog[i].type = PLAYLIST_VALUE
          /\ catalog[i].data \notin {EMPTY_PLAYLIST, OTHER_DATA}
          /\ Len(catalog[i].data.LinkedChildren) = 2
          /\ Cardinality(Mp3Entries(catalog[i].Path)) = 2


\* the playlist operations whose playlist lies directly in the given directory
PlaylistOperationsIn(albumPath) ==
    {k \in 1..Len(playlistOperations) :
        parent_path(playlistOperations[k].path) = albumPath}

\* C32: each step of generateAlbumsOperationsData that takes an album row
\* appends one operation for the row's path.  When some playlist operation
\* has that path as parent directory, the artist, album and image descriptor
\* of the new operation are those of the first such playlist operation and
\* the album directory is not read (the step cannot end in the exception of
\* a missing directory); when none has, they are computed from the album
\* path.
C32_AlbumReusesPlaylistOperation ==
    [][(pc = "gao_loop" /\ cursor # <<>> /\ ~abortVisible)
       => LET albumPath == catalog[Head(cursor)].Path
              matches == PlaylistOperationsIn(albumPath)
          IN  /\ matches # {} => m_error' # ExceptionText
              /\ cursor' # cursor
                 => /\ cursor' = Tail(cursor)
                    /\ Len(albumOperations') = Len(albumOperations) + 1
                    /\ LET new == albumOperations'[Len(albumOperations')]
                       IN  /\ new.path = albumPath
                           /\ IF matches # {}
                              THEN LET first == playlistOperations[
                                          CHOOSE k \in matches : \A j \in matches : k <= j]
                                   IN  /\ new.artist = first.artist
                                       /\ new.album = first.album
                                       /\ new.imageData = first.imageData
                              ELSE /\ <<new.artist, new.album>> = AlbumMetadata(albumPath)
                                   /\ new.imageData \in albumBlurhash(albumPath)]_vars

\* an album operation was copied from the playlist operation of its
\* directory after the directory had disappeared
C32_Witness ==
    /\ Len(albumOperations) = 1
    /\ PlaylistOperationsIn(albumOperations[1].path) # {}
    /\ ~exists(albumOperations[1].path)
    /\ albumOperations[1].imageData = playlistOperations[1].imageData
    /\ albumOperations[1].imageData # EmptyString


\* the text before the first " - " of a name and the whole text after it
ParseOf(t) ==
    <<SubSeq(t, 1, FirstSeparator(t) - 1),
      SubSeq(t, FirstSeparator(t) + Len(SEPARATOR), Len(t))>>

\* C33 (as claimed): the artist and album generated for a playlist are the
\* parse of the stem of its parent directory when that stem contains " - ";
\* otherwise the parse of the stem of the playlist file when that one
\* contains " - "; and ("Unknown", file stem) when neither stem does.
C33_PlaylistMetadataFallback ==
    (call.fn = "playlistMetadata" /\ call.done) =>
        LET dirStem == stem(parent_path(call.path))
            fileStem == stem(call.path)
        IN  call.pair = IF FirstSeparator(dirStem) # 0 THEN ParseOf(dirStem)
                        ELSE IF FirstSeparator(fileStem) # 0 THEN ParseOf(fileStem)
                        ELSE <<Unknown, fileStem>>


\* C34 (as claimed): applying one playlist-image operation changes only rows
\* whose MediaType is 'Audio' and whose Path starts with the parent
\* directory of the operation's playlist followed by the separator; every
\* other row is left unchanged, whatever the directory is called.
C34_OnlyRowsOfTheDirectoryChange ==
    [][(call.fn = "updatePlaylistImages" /\ ~call.done /\ call'.done)
       => \A i \in Rows :
             LET dir == parent_path(call.path)
                 text == PathString(catalog[i].Path)
                 prefix == PathString(dir) \o <<BACKSLASH>>
             IN  ~(/\ catalog[i].MediaType = AUDIO
                   /\ Len(text) >= Len(prefix)
                   /\ SubSeq(text, 1, Len(prefix)) = prefix)
                 => catalog'[i] = catalog[i]]_vars


\* C35 (as claimed): whenever updatePlaylistImages or updateAlbumOperations
\* is in its loop with at least one operation to apply, the SET list of its
\* UPDATE is not empty, neither starts nor ends with a comma and has no two
\* commas in a row, and the statement was prepared successfully.
C35_SetListWellFormed ==
    (\/ pc \in {"upi_check", "upi_body"} /\ playlistOperations # <<>>
     \/ pc \in {"uao_check", "uao_body"} /\ albumOperations # <<>>)
    => LET list == SetClause(config)
       IN  /\ list # <<>>
           /\ list[1] # ","
           /\ list[Len(list)] # ","
           /\ \A i \in 1..(Len(list) - 1) : ~(list[i] = "," /\ list[i + 1] = ",")
           /\ stmtOk


\* C36 (as claimed): a descriptor returned by albumBlurhash is the
\* descriptor of an entry of the directory whose own file name contains the
\* image name; when no entry's file name contains it the descriptor is
\* empty, whatever the directory is called.
C36_CoverChosenByFileName ==
    (call.fn = "albumBlurhash" /\ call.done /\ call.text # EmptyString)
    => \E e \in DirectoryEntries(call.path) :
          /\ Contains(filename(e), config.imageName)
          /\ call.text = Descriptor(e)


\* C37 (as claimed): for an image of width >= 1 and height >= 1 both
\* components of the encode grid lie in 1..5; the component of the larger
\* dimension is 5 and the other one is 5 divided (rounding down) by the
\* whole-number ratio of the larger to the smaller dimension; a square image
\* gives (5, 5).
C37_EncodeGridInRange ==
    (call.fn = "encodeGrid" /\ call.done) =>
        LET width == call.size[1]
            height == call.size[2]
            x == call.grid[1]
            y == call.grid[2]
        IN  /\ x \in 1..5
            /\ y \in 1..5
            /\ width = height => (x = 5 /\ y = 5)
            /\ width > height => (x = 5 /\ y = 5 \div (width \div height))
            /\ width < height => (y = 5 /\ x = 5 \div (height \div width))

\* C38 (as claimed): the timestamp of the descriptor is the decimal text of
\* unixMillis * 10000 + 621355968000000000.
C38_TicksOfModificationTime ==
    (call.fn = "writeTime" /\ call.done) =>
        call.ticks = AddDecimal(ToDecimal(call.millis) \o <<"0", "0", "0", "0">>,
                                <<"6", "2", "1", "3", "5", "5", "9", "6", "8",
                                  "0", "0", "0", "0", "0", "0", "0", "0", "0">>)


\* C39 (as claimed): every track-number operation that is generated has a
\* track number of at least 1, also when the number part of the stem, or the
\* part after "1-", is not a decimal integer.
C39_TrackNumberAtLeastOne ==
    (call.fn = "trackNumber" /\ call.done /\ ~call.number.isNull)
    => call.number.val >= 1
=============================================================================
